---------------------------- MODULE Spec2Model ----------------------------
(***************************************************************************)
(* A model of OverProto (overproto-go): the reliable UDP ARQ context       *)
(* (transport/reliable), the TCP receive state machine (transport/tcp),    *)
(* the fragmenter (core/fragment) and the wire codec (core/packet).        *)
(***************************************************************************)
EXTENDS Integers, Sequences, FiniteSets, TLC

(***************************************************************************)
(* Machine integers.                                                       *)
(***************************************************************************)
\* TLC's integers are 32-bit signed and cannot hold 2^32: a uint32 is modelled
\* as a word of WordMod values, far above every sequence number the bounds
\* below let a context reach.
WordMod == 1073741824

U32(x) == x % WordMod

U16(x) == x % 65536

\* b is a power of two: the bit b of f
HasFlag(f, b) == (f \div b) % 2 = 1

SetFlag(f, b) == IF HasFlag(f, b) THEN f ELSE f + b

ClearFlag(f, b) == IF HasFlag(f, b) THEN f - b ELSE f

(***************************************************************************)
(* Protocol constants (core/common.go) and ARQ constants.                  *)
(***************************************************************************)
Magic == 43981

Version == 1

HeaderSize == 24

FragMaxFragments == 256

\* the largest payload_len a header carries, and the largest payload
\* Serialize accepts
MaxPayloadSize == 65535

FlagFragment == 1

FlagCompressed == 2

FlagEncrypted == 4

FlagReliable == 8

FlagACK == 16

CompressThreshold == 512

ProtoTCP == 1

ProtoUDP == 2

ProtoHTTP == 3

AESIVSize == 12

AESGCMTagSize == 16

OpData == 1

OpACK == 3

WindowSize == 32

InitialRTT == 100

InitialCwnd == 4

MaxCwnd == 32

MaxRetries == 5

FastRetransmitThreshold == 3

TCPRecvBufferSize == 65536

StateIdle == "Idle"

StateReadingHeader == "ReadingHeader"

StateReadingPayload == "ReadingPayload"

StateReadingCRC == "ReadingCRC"

StateReady == "Ready"

StateEmpty == "Empty"

StateSent == "Sent"

StateACKed == "ACKed"

StateRetransmit == "Retransmit"

(***************************************************************************)
(* Bounds of the model.                                                    *)
(***************************************************************************)
\* Send is offered while nextSeq < MaxSeq
MaxSeq == 2

\* the datagrams offered to Recv carry seq in 0..MaxRecvSeq (and two far ones)
MaxRecvSeq == 6

\* ProcessACK is offered while dupACKCount stays <= MaxDupAcks
MaxDupAcks == 4

\* the clock advances in steps of TickMs milliseconds
TickMs == 200

\* a slot's elapsed time is tracked up to AgeCap milliseconds
AgeCap == 800

\* SpecWin offers Send while nextSeq < MaxSeqWin
MaxSeqWin == 46

\* SpecWin offers ProcessACK the seqs sendBase .. sendBase + AckSpan
AckSpan == 3

\* SpecLink offers Send while nextSeq < LinkMaxSeq
LinkMaxSeq == 3

\* SpecWrap: the context starts WrapLead sequence numbers before the word
\* wraps and accepts at most MaxWrapSends packets
WrapLead == 3

MaxWrapSends == 8

\* TCP: the frames the peer writes, and the TCPRecv calls the receiver makes
MaxFrames == 2

MaxTcpCalls == 3

\* TCP: the payloads of the frames
TcpPayloads == {<<>>, <<171>>, <<1, 205>>}

\* fragmenter: the packet is a prefix of PayloadBytes, at most MaxPayloadLen long
MaxPayloadLen == 5

PayloadBytes == <<10, 20, 30, 40, 50, 60, 70>>

\* fragmenter: the MTUs; 28 leaves no room, 27 wraps the unsigned subtraction
FragMTUs == {27, 28, 29, 30}

\* the package: the goroutines that call Send
Callers == {1, 2}

\* the package: calls finished in one run
MaxLibCalls == 3

VARIABLES
    ctx,        \* the ReliableContext
    delivered,  \* history: the seqs of the RELIABLE packets Recv has returned
    chanData,   \* SpecLink: the data datagrams in flight to the receiver
    chanAck,    \* SpecLink: the ACK datagrams in flight to the sender
    conn,       \* the TCPConnection
    tcpStream,  \* TCP: the bytes written by the peer and not yet read
    tcpFrames,  \* history: the frames the peer has written
    tcpClosed,  \* TCP: the peer has closed
    tcpCall,    \* the TCPRecv call in progress: the readExact it is in
    tcpOut,     \* history: what each TCPRecv call returned
    fctx,       \* the FragmentContext
    fragIn,     \* history: the packet given to FragmentPacket
    fragWire,   \* the serialized fragments FragmentPacket returned
    fragRet,    \* what the last fragmenter call returned
    fragHist,   \* history: a fragment came twice, a fragment came out of order
    codec,      \* the codec: a header and payload, what Serialize and Deserialize returned
    lib,        \* the package state: init flag, config, callback, AEAD key slot
    libSend,    \* the public Send calls in progress, one per caller
    libLog,     \* history: what each finished call of the package returned
    tcpMt,      \* TCPRecv called from several threads: conn.mu and each thread's call
    keys        \* the AEAD key slot under keyMutex, its buffers, and the calls reading it

arqVars == <<ctx, delivered, chanData, chanAck>>

tcpVars == <<conn, tcpStream, tcpFrames, tcpClosed, tcpCall, tcpOut>>

fragVars == <<fctx, fragIn, fragWire, fragRet, fragHist>>

codecVars == <<codec>>

libVars == <<lib, libSend, libLog>>

concVars == <<tcpMt, keys>>

otherVars == <<tcpVars, fragVars, codecVars, libVars, concVars>>

vars == <<arqVars, otherVars>>

(***************************************************************************)
(* ReliableContext                                                         *)
(***************************************************************************)
NoPkt == [seq |-> 0, flags |-> 0, opcode |-> 0]

\* WindowSlot{}: the zero value. Elapsed is now - SentAt, the only use the
\* code makes of SentAt; it is kept for the slots whose SentAt is read
\* (Sent, Retransmit).
EmptySlot == [Serialized |-> NoPkt, State |-> StateEmpty, Elapsed |-> 0, RetryCount |-> 0]

NewReliableContext ==
    [ sendWindow  |-> [i \in 0..(WindowSize - 1) |-> EmptySlot],
      sendBase    |-> 0,
      nextSeq     |-> 0,
      windowSize  |-> WindowSize,
      recvBase    |-> 0,
      recvWindow  |-> [i \in 0..(WindowSize - 1) |-> FALSE],
      rtt         |-> [SRTT |-> InitialRTT, RTTVar |-> InitialRTT \div 2,
                       RTO |-> InitialRTT + 4 * (InitialRTT \div 2), SamplesCount |-> 0],
      cwnd        |-> InitialCwnd,
      ssthresh    |-> MaxCwnd,
      dupACKCount |-> 0,
      lastACKSeq  |-> 0,
      inSlowStart |-> TRUE ]

getWindowIndex(seq) == seq % WindowSize

isInSendWindow(c, seq) ==
    IF c.sendBase <= seq /\ seq < U32(c.sendBase + c.windowSize) THEN TRUE
    ELSE IF U32(c.sendBase + c.windowSize) < c.sendBase
         THEN seq >= c.sendBase \/ seq < U32(c.sendBase + c.windowSize)
         ELSE FALSE

\* isInRecvWindow without the lower end of the window
isInRecvWindow_noLowerEnd(c, seq) == seq < U32(c.recvBase + c.windowSize)

\* isInRecvWindow with the upper end of the window included
isInRecvWindow_inclusive(c, seq) ==
    c.recvBase <= seq /\ seq <= U32(c.recvBase + c.windowSize)

isInRecvWindow(c, seq) ==
    IF c.recvBase <= seq /\ seq < U32(c.recvBase + c.windowSize) THEN TRUE
    ELSE IF U32(c.recvBase + c.windowSize) < c.recvBase
         THEN seq >= c.recvBase \/ seq < U32(c.recvBase + c.windowSize)
         ELSE FALSE

\* the datagram Send serializes: the caller's header with Seq and FlagReliable
DataPkt(seq, flags) == [seq |-> seq, flags |-> SetFlag(flags, FlagReliable), opcode |-> OpData]

\* an ACK that goes out with the opcode of a data packet
AckPkt_dataOpcode(ackSeq) == [seq |-> ackSeq, flags |-> FlagACK + FlagReliable, opcode |-> OpData]

\* the datagram sendACK serializes
AckPkt(ackSeq) == [seq |-> ackSeq, flags |-> FlagACK + FlagReliable, opcode |-> OpACK]

\* Send with no window test at all
SendWindowFull_never(c) == FALSE

\* availableSlots as Send computes it, and its window-full test
SendAvailable(c) ==
    LET a0 == U32(c.windowSize - (c.nextSeq - c.sendBase))
        a1 == IF a0 > c.windowSize THEN c.windowSize ELSE a0
    IN  IF a1 = 0 \/ a1 > c.cwnd THEN c.cwnd ELSE a1

SendWindowFull(c) == U32(c.nextSeq - c.sendBase) >= SendAvailable(c)

\* Send(hdr, payload): payloadOK is len(payload) <= 65535 (Serialize's check),
\* writeOK the outcome of WriteToUDP. Returns the context, the datagrams
\* written and the error.
SendFn(c, flags, payloadOK, writeOK) ==
    IF SendWindowFull(c)
    THEN [ctx |-> c, wire |-> <<>>, err |-> "send window full"]
    ELSE LET seq == c.nextSeq
             c1  == [c EXCEPT !.nextSeq = U32(c.nextSeq + 1)]
             pkt == DataPkt(seq, flags)
         IN  IF ~payloadOK
             THEN [ctx |-> c1, wire |-> <<>>, err |-> "payload too large"]
             ELSE LET c2 == [c1 EXCEPT !.sendWindow[getWindowIndex(seq)] =
                                 [Serialized |-> pkt, State |-> StateSent,
                                  Elapsed |-> 0, RetryCount |-> 0]]
                  IN  IF writeOK
                      THEN [ctx |-> c2, wire |-> <<pkt>>, err |-> ""]
                      ELSE [ctx |-> c2, wire |-> <<>>, err |-> "write error"]

\* the advance of Recv stopping after one step
RecvAdvance_oneStep(c) ==
    IF c.recvWindow[getWindowIndex(c.recvBase)]
    THEN [c EXCEPT !.recvWindow[getWindowIndex(c.recvBase)] = FALSE,
                   !.recvBase = U32(c.recvBase + 1)]
    ELSE c

\* the window-advance loop of Recv
RECURSIVE RecvAdvance(_)
RecvAdvance(c) ==
    IF c.recvWindow[getWindowIndex(c.recvBase)]
    THEN RecvAdvance([c EXCEPT !.recvWindow[getWindowIndex(c.recvBase)] = FALSE,
                               !.recvBase = U32(c.recvBase + 1)])
    ELSE c

\* Recv on one datagram d = [pkt, fromPeer, ok]: ok is UDPRecv's success.
\* Returns the context, the datagrams written, the error and the header
\* returned to the caller.
RecvFn(c, d) ==
    IF ~d.ok
    THEN [ctx |-> c, wire |-> <<>>, err |-> "udp recv error", hdr |-> NoPkt]
    ELSE IF ~d.fromPeer
    THEN [ctx |-> c, wire |-> <<>>, err |-> "packet from wrong address", hdr |-> NoPkt]
    ELSE IF ~HasFlag(d.pkt.flags, FlagReliable)
    THEN [ctx |-> c, wire |-> <<>>, err |-> "", hdr |-> d.pkt]
    ELSE LET seq == d.pkt.seq
             idx == getWindowIndex(seq)
         IN  IF ~isInRecvWindow(c, seq)
             THEN [ctx |-> c, wire |-> <<AckPkt(seq)>>,
                   err |-> "sequence number out of receive window", hdr |-> NoPkt]
             ELSE IF c.recvWindow[idx]
             THEN [ctx |-> c, wire |-> <<AckPkt(seq)>>,
                   err |-> "duplicate packet", hdr |-> NoPkt]
             ELSE LET c1 == [c EXCEPT !.recvWindow[idx] = TRUE]
                      c2 == IF seq = c1.recvBase THEN RecvAdvance(c1) ELSE c1
                  IN  [ctx |-> c2, wire |-> <<AckPkt(seq)>>, err |-> "", hdr |-> d.pkt]

updateRTT(r, rtt) ==
    LET r1 == IF r.SamplesCount = 0
              THEN [r EXCEPT !.SRTT = rtt, !.RTTVar = rtt \div 2]
              ELSE LET delta == IF rtt > r.SRTT THEN rtt - r.SRTT ELSE r.SRTT - rtt
                   IN  [r EXCEPT !.RTTVar = U32(3 * r.RTTVar + delta) \div 4,
                                 !.SRTT = U32(7 * r.SRTT + rtt) \div 8]
    IN  [r1 EXCEPT !.RTO = U32(r1.SRTT + 4 * r1.RTTVar),
                   !.SamplesCount = r1.SamplesCount + 1]

\* slow start doubling the window on every ACK
updateCongestionWindow_doubles(c) ==
    IF c.inSlowStart
    THEN LET w == U32(c.cwnd + c.cwnd)
         IN  [c EXCEPT !.inSlowStart = ~(w >= c.ssthresh),
                       !.cwnd = IF w > MaxCwnd THEN MaxCwnd ELSE w]
    ELSE c

updateCongestionWindow(c) ==
    IF c.inSlowStart
    THEN LET w == U32(c.cwnd + 1)
         IN  [c EXCEPT !.inSlowStart = ~(w >= c.ssthresh),
                       !.cwnd = IF w > MaxCwnd THEN MaxCwnd ELSE w]
    ELSE LET w == U32(c.cwnd + (1 \div c.cwnd))
         IN  [c EXCEPT !.cwnd = IF w > MaxCwnd THEN MaxCwnd ELSE w]

\* the advance loop stepping sendBase the wrong way
SendAdvance_backwards(c) ==
    IF c.sendBase < c.nextSeq
       /\ c.sendWindow[getWindowIndex(c.sendBase)].State = StateACKed
    THEN [c EXCEPT !.sendWindow[getWindowIndex(c.sendBase)] = EmptySlot,
                   !.sendBase = U32(c.sendBase - 1)]
    ELSE c

\* the advance loop stepping over a slot retry exhaustion has emptied
SendAdvance_skipsEmpty(c) ==
    IF c.sendBase < c.nextSeq
       /\ c.sendWindow[getWindowIndex(c.sendBase)].State \in {StateACKed, StateEmpty}
    THEN [c EXCEPT !.sendWindow[getWindowIndex(c.sendBase)] = EmptySlot,
                   !.sendBase = U32(c.sendBase + 1)]
    ELSE c

\* the advance loop leaving the slots it passes as they are
RECURSIVE SendAdvance_keepsSlot(_)
SendAdvance_keepsSlot(c) ==
    IF c.sendBase < c.nextSeq
       /\ c.sendWindow[getWindowIndex(c.sendBase)].State = StateACKed
    THEN SendAdvance_keepsSlot([c EXCEPT !.sendBase = U32(c.sendBase + 1)])
    ELSE c

\* the send-window advance loop of ProcessACK
RECURSIVE SendAdvance(_)
SendAdvance(c) ==
    IF c.sendBase < c.nextSeq
       /\ c.sendWindow[getWindowIndex(c.sendBase)].State = StateACKed
    THEN SendAdvance([c EXCEPT !.sendWindow[getWindowIndex(c.sendBase)] = EmptySlot,
                               !.sendBase = U32(c.sendBase + 1)])
    ELSE c

\* ProcessACK(ackSeq): the context and the datagrams written
ProcessACKFn(c, ackSeq) ==
    IF ~isInSendWindow(c, ackSeq)
    THEN [ctx |-> c, wire |-> <<>>]
    ELSE LET idx  == getWindowIndex(ackSeq)
             slot == c.sendWindow[idx]
         IN  IF slot.State = StateEmpty \/ slot.State = StateACKed
             THEN [ctx |-> c, wire |-> <<>>]
             ELSE IF ackSeq = c.lastACKSeq
             THEN LET c1 == [c EXCEPT !.dupACKCount = U32(c.dupACKCount + 1)]
                  IN  IF c1.dupACKCount = FastRetransmitThreshold /\ slot.State = StateSent
                      THEN [ctx |-> [c1 EXCEPT !.sendWindow[idx].State = StateRetransmit],
                            wire |-> <<slot.Serialized>>]
                      ELSE [ctx |-> c1, wire |-> <<>>]
             ELSE LET c1 == [c EXCEPT !.dupACKCount = 0, !.lastACKSeq = ackSeq]
                      c2 == IF slot.RetryCount = 0 /\ slot.State = StateSent
                            THEN [c1 EXCEPT !.rtt = updateRTT(c1.rtt, U32(slot.Elapsed))]
                            ELSE c1
                      c3 == [c2 EXCEPT !.sendWindow[idx].State = StateACKed]
                      c4 == updateCongestionWindow(c3)
                  IN  [ctx |-> SendAdvance(c4), wire |-> <<>>]

\* the loop of ProcessTimeouts from index i on; failAt = k > 0 makes the
\* k-th WriteToUDP of the call fail, 0 makes none fail
RECURSIVE TimeoutLoop(_, _, _, _, _)
TimeoutLoop(c, i, out, retransmitted, failAt) ==
    LET seq == U32(c.sendBase + i) IN
    IF i >= c.windowSize \/ seq >= c.nextSeq
    THEN [ctx |-> c, wire |-> out, n |-> retransmitted, err |-> ""]
    ELSE LET idx  == getWindowIndex(seq)
             slot == c.sendWindow[idx]
         IN  IF slot.State = StateEmpty \/ slot.State = StateACKed
             THEN TimeoutLoop(c, i + 1, out, retransmitted, failAt)
             ELSE IF ~(U32(slot.Elapsed) > c.rtt.RTO)
             THEN TimeoutLoop(c, i + 1, out, retransmitted, failAt)
             ELSE IF slot.RetryCount >= MaxRetries
             THEN TimeoutLoop([c EXCEPT !.sendWindow[idx].State = StateEmpty],
                              i + 1, out, retransmitted, failAt)
             ELSE LET half == c.cwnd \div 2
                      c1 == [c EXCEPT !.sendWindow[idx].RetryCount = U32(slot.RetryCount + 1),
                                      !.sendWindow[idx].Elapsed = 0,
                                      !.sendWindow[idx].State = StateRetransmit,
                                      !.ssthresh = IF half < 2 THEN 2 ELSE half,
                                      !.cwnd = InitialCwnd,
                                      !.inSlowStart = TRUE]
                  IN  IF failAt = retransmitted + 1
                      THEN [ctx |-> c1, wire |-> out, n |-> retransmitted, err |-> "write error"]
                      ELSE TimeoutLoop(c1, i + 1, Append(out, slot.Serialized),
                                       retransmitted + 1, failAt)

\* ProcessTimeouts emptying a slot at its first timeout
ProcessTimeoutsFn_dropsAtOnce(c, failAt) ==
    [ctx |-> [c EXCEPT !.sendWindow =
                 [i \in 0..(WindowSize - 1) |->
                     IF /\ c.sendWindow[i].State \in {StateSent, StateRetransmit}
                        /\ U32(c.sendWindow[i].Elapsed) > c.rtt.RTO
                     THEN [c.sendWindow[i] EXCEPT !.State = StateEmpty]
                     ELSE c.sendWindow[i]]],
     wire |-> <<>>, n |-> 0, err |-> ""]

\* ProcessTimeouts updating the slots without writing any datagram
ProcessTimeoutsFn_noResend(c, failAt) ==
    [TimeoutLoop(c, 0, <<>>, 0, failAt) EXCEPT !.wire = <<>>]

ProcessTimeoutsFn(c, failAt) == TimeoutLoop(c, 0, <<>>, 0, failAt)

\* time passes: now grows by d for every slot whose SentAt is read
Elapse(c, d, cap) ==
    [c EXCEPT !.sendWindow =
        [i \in 0..(WindowSize - 1) |->
            IF c.sendWindow[i].State \in {StateSent, StateRetransmit}
            THEN [c.sendWindow[i] EXCEPT !.Elapsed =
                     IF c.sendWindow[i].Elapsed + d > cap THEN cap
                     ELSE c.sendWindow[i].Elapsed + d]
            ELSE c.sendWindow[i]]]


(***************************************************************************)
(* Wire codec: core/packet.go.  A buffer is a sequence of bytes (0..255).  *)
(* A 32-bit header field is read back modulo WordMod, the model's word.    *)
(***************************************************************************)
\* A 32-bit digest register is the set of its set bits; the functions below
\* are functions, not operators, so that TLC evaluates their arguments once.
Word32 == SUBSET (0..31)

\* the bits of a byte that are set
Bits == [b \in 0..255 |-> { i \in 0..7 : (b \div (2 ^ i)) % 2 = 1 }]

\* the exclusive or of two registers
Xor == [s \in Word32, t \in Word32 |-> (s \ t) \cup (t \ s)]

\* the reflected CRC-32 polynomial 0xEDB88320
CrcPoly == {5, 8, 9, 15, 19, 20, 21, 23, 24, 26, 27, 29, 30, 31}

\* one bit step of the digest: shift right, xor the polynomial in when a one
\* falls out
CrcShift ==
    [s \in Word32 |->
        IF 0 \in s THEN Xor[{ i - 1 : i \in s \ {0} }, CrcPoly]
        ELSE { i - 1 : i \in s }]

\* one byte step: xor the byte into the low end, eight bit steps
CrcStep ==
    [s \in Word32, b \in 0..255 |->
        CrcShift[CrcShift[CrcShift[CrcShift[
        CrcShift[CrcShift[CrcShift[CrcShift[Xor[s, Bits[b]]]]]]]]]]]

\* Update: the register after the first n bytes of data
RECURSIVE CrcUpdate(_, _)
CrcUpdate(data, n) ==
    IF n = 0 THEN 0..31 ELSE CrcStep[CrcUpdate(data, n - 1), data[n]]

\* the byte made of the bits lo..lo+7 of a register
CrcByteAt(s, lo) ==
    LET bit(i) == IF (lo + i) \in s THEN 2 ^ i ELSE 0
    IN  bit(0) + bit(1) + bit(2) + bit(3) + bit(4) + bit(5) + bit(6) + bit(7)

\* NewCRC32, Update, Final: init and post-xor 0xFFFFFFFF; the value as its
\* four bytes, most significant first
CRC32 ==
    [data \in Seq(0..255) |->
        LET s == (0..31) \ CrcUpdate(data, Len(data))
        IN  <<CrcByteAt(s, 24), CrcByteAt(s, 16), CrcByteAt(s, 8), CrcByteAt(s, 0)>>]

\* binary.BigEndian.PutUint16 / PutUint32
BE16(v) == <<(v \div 256) % 256, v % 256>>

\* PutUint32 in little-endian order
BE32_littleEndian(v) == <<v % 256, (v \div 256) % 256, (v \div 65536) % 256, (v \div 16777216) % 256>>

BE32(v) == <<(v \div 16777216) % 256, (v \div 65536) % 256, (v \div 256) % 256, v % 256>>

\* binary.BigEndian.Uint16 / Uint32 of the bytes at a 0-based offset
Uint16At(d, off) == d[off + 1] * 256 + d[off + 2]

Uint32At(d, off) ==
    U32((d[off + 1] % 128) * 16777216 + d[off + 2] * 65536 + d[off + 3] * 256 + d[off + 4])

NoHeader ==
    [Magic |-> 0, Version |-> 0, Flags |-> 0, Opcode |-> 0, Proto |-> 0,
     StreamID |-> 0, Seq |-> 0, FragID |-> 0, TotalFrags |-> 0,
     PayloadLen |-> 0, Timestamp |-> 0, CRC32 |-> 0]

\* ValidateHeader without the version test
ValidateHeader_skipsVersion(hdr) ==
    IF hdr.Magic # Magic THEN "invalid magic number" ELSE ""

ValidateHeader(hdr) ==
    IF hdr.Magic # Magic THEN "invalid magic number"
    ELSE IF hdr.Version # Version THEN "invalid version"
    ELSE ""

\* Serialize: header (reserved word zero), payload, CRC32 over both
Serialize(hdr, payload) ==
    IF Len(payload) > 65535
    THEN [data |-> <<>>, err |-> "payload too large (max 65535 bytes)"]
    ELSE LET headerBuf ==
                 BE16(hdr.Magic) \o <<hdr.Version, hdr.Flags, hdr.Opcode, hdr.Proto>>
                 \o BE32(hdr.StreamID) \o BE32(hdr.Seq) \o BE16(hdr.FragID)
                 \o BE16(hdr.TotalFrags) \o BE16(hdr.PayloadLen) \o BE32(0)
         IN  [data |-> headerBuf \o payload \o CRC32[headerBuf \o payload],
              err  |-> ""]

\* Deserialize: header, payload and error of a buffer
Deserialize(data) ==
    IF Len(data) < HeaderSize + 4
    THEN [hdr |-> NoHeader, payload |-> <<>>, err |-> "data too short for packet"]
    ELSE
    LET hdr == [Magic      |-> Uint16At(data, 0),
                Version    |-> data[3],
                Flags      |-> data[4],
                Opcode     |-> data[5],
                Proto      |-> data[6],
                StreamID   |-> Uint32At(data, 6),
                Seq        |-> Uint32At(data, 10),
                FragID     |-> Uint16At(data, 14),
                TotalFrags |-> Uint16At(data, 16),
                PayloadLen |-> Uint16At(data, 18),
                Timestamp  |-> Uint32At(data, 20),
                CRC32      |-> 0]
        payloadEnd    == HeaderSize + hdr.PayloadLen
        payload       == SubSeq(data, HeaderSize + 1, payloadEnd)
        crc32Received == SubSeq(data, Len(data) - 3, Len(data))
    IN  IF ValidateHeader(hdr) # ""
        THEN [hdr |-> NoHeader, payload |-> <<>>, err |-> ValidateHeader(hdr)]
        ELSE IF payloadEnd > Len(data) - 4
        THEN [hdr |-> NoHeader, payload |-> <<>>,
              err |-> "payload length exceeds available data"]
        ELSE IF crc32Received # CRC32[SubSeq(data, 1, HeaderSize) \o payload]
        THEN [hdr |-> NoHeader, payload |-> <<>>, err |-> "CRC32 mismatch"]
        ELSE [hdr |-> hdr, payload |-> payload, err |-> ""]

\* NewPacketHeader with the clock left out: the stamp is never transmitted
NewPacketHeader == [NoHeader EXCEPT !.Magic = Magic, !.Version = Version]

\* the bytes sendACK writes: a fresh header with OpACK, ACK|RELIABLE and the
\* acknowledged seq, serialized with a nil payload
sendACK(ackSeq) ==
    Serialize([NewPacketHeader EXCEPT !.Opcode = OpACK,
                                      !.Flags = FlagACK + FlagReliable,
                                      !.Seq = ackSeq], <<>>).data

(***************************************************************************)
(* TCP receive state machine: transport/tcp.go.  recvBuffer is its length  *)
(* and the bytes written so far; every byte after them is zero.            *)
(***************************************************************************)
RECURSIVE Zeros(_)
Zeros(n) == IF n <= 0 THEN <<>> ELSE <<0>> \o Zeros(n - 1)

MakeBuf(n) == [len |-> n, data |-> <<>>]

\* buf[i], 0-based
BufAt(buf, i) == IF i < Len(buf.data) THEN buf.data[i + 1] ELSE 0

\* buf[:n]
BufSlice(buf, n) ==
    IF n <= Len(buf.data) THEN SubSeq(buf.data, 1, n)
    ELSE buf.data \o Zeros(n - Len(buf.data))

\* copy(buf[off:], bytes)
BufWrite(buf, off, bytes) ==
    LET d == BufSlice(buf, IF Len(buf.data) < off THEN off ELSE Len(buf.data))
    IN  [buf EXCEPT !.data = SubSeq(d, 1, off) \o bytes
                             \o SubSeq(d, off + Len(bytes) + 1, Len(d))]

NewTCPConnection ==
    [recvState |-> StateIdle, recvBuffer |-> MakeBuf(TCPRecvBufferSize), recvBytesRead |-> 0]

\* payload_len with the two bytes taken in the wrong order
TCPPayloadLen_littleEndian(c) == BufAt(c.recvBuffer, 18) + BufAt(c.recvBuffer, 19) * 256

\* uint16(recvBuffer[18])<<8 | uint16(recvBuffer[19])
TCPPayloadLen(c) == BufAt(c.recvBuffer, 18) * 256 + BufAt(c.recvBuffer, 19)

TCPBlocked(c, n) ==
    [conn |-> c, want |-> n, done |-> FALSE, hdr |-> NoHeader, payload |-> <<>>, err |-> ""]

TCPReturn(c, h, p, e) ==
    [conn |-> c, want |-> 0, done |-> TRUE, hdr |-> h, payload |-> p, err |-> e]

\* the loop of TCPRecv from the current recvState up to the next readExact
\* (want bytes) or the return
RECURSIVE TCPRun(_)
TCPRun(c) ==
    CASE c.recvState = StateIdle ->
            TCPRun([c EXCEPT !.recvBuffer = MakeBuf(HeaderSize),
                             !.recvBytesRead = 0,
                             !.recvState = StateReadingHeader])
      [] c.recvState = StateReadingHeader ->
            IF HeaderSize - c.recvBytesRead > 0
            THEN TCPBlocked(c, HeaderSize - c.recvBytesRead)
            ELSE LET totalSize == HeaderSize + TCPPayloadLen(c) + 4
                     newBuf == [len |-> totalSize, data |-> BufSlice(c.recvBuffer, HeaderSize)]
                 IN  TCPRun([c EXCEPT !.recvBuffer = IF totalSize > c.recvBuffer.len
                                                     THEN newBuf ELSE c.recvBuffer,
                                      !.recvState = StateReadingPayload,
                                      !.recvBytesRead = HeaderSize])
      [] c.recvState = StateReadingPayload ->
            LET payloadEnd == HeaderSize + TCPPayloadLen(c)
            IN  IF payloadEnd - c.recvBytesRead > 0
                THEN TCPBlocked(c, payloadEnd - c.recvBytesRead)
                ELSE TCPRun([c EXCEPT !.recvState = StateReadingCRC])
      [] c.recvState = StateReadingCRC ->
            LET crcEnd == HeaderSize + TCPPayloadLen(c) + 4
            IN  IF crcEnd - c.recvBytesRead > 0
                THEN TCPBlocked(c, crcEnd - c.recvBytesRead)
                ELSE TCPRun([c EXCEPT !.recvState = StateReady])
      [] c.recvState = StateReady ->
            LET d == Deserialize(BufSlice(c.recvBuffer, c.recvBytesRead))
            IN  IF d.err # ""
                THEN TCPReturn([c EXCEPT !.recvState = StateIdle], NoHeader, <<>>, d.err)
                ELSE TCPReturn([c EXCEPT !.recvState = StateIdle, !.recvBytesRead = 0],
                               d.hdr, d.payload, "")

\* a failed readExact that leaves the state machine where it was
TCPReadFail_staysMidFrame(c, e) == TCPReturn(c, NoHeader, <<>>, e)

\* a readExact that fails with e: TCPRecv resets to Idle and returns e
TCPReadFail(c, e) == TCPReturn([c EXCEPT !.recvState = StateIdle], NoHeader, <<>>, e)

\* the assignment to recvBytesRead that follows a readExact that succeeded
TCPAfterRead(c) ==
    CASE c.recvState = StateReadingHeader ->
            [c EXCEPT !.recvBytesRead = HeaderSize]
      [] c.recvState = StateReadingPayload ->
            [c EXCEPT !.recvBytesRead = HeaderSize + TCPPayloadLen(c)]
      [] c.recvState = StateReadingCRC ->
            [c EXCEPT !.recvBytesRead = HeaderSize + TCPPayloadLen(c) + 4]

(***************************************************************************)
(* Fragmenter: core/fragment.go.  A nil buffer is Nil; a nil header        *)
(* pointer is the empty sequence.  CreatedAt is left out.                  *)
(***************************************************************************)
Nil == <<-1>>

\* the run-time panics of an array index and of a nil pointer
IndexOutOfRange == "index out of range"

NilDereference == "nil pointer dereference"

NewFragmentContext(streamID, seq, totalFrags) ==
    [StreamID |-> streamID, Seq |-> seq, TotalFrags |-> totalFrags,
     ReceivedFrags |-> 0,
     Fragments |-> [i \in 0..(FragMaxFragments - 1) |-> Nil],
     FragSizes |-> [i \in 0..(FragMaxFragments - 1) |-> 0],
     Header |-> <<>>, TotalPayloadSize |-> 0, ReceivedPayloadSize |-> 0]

\* AddFragment without the duplicate test
AddFragment_countsDuplicates(c, fragID, hdr, data) ==
    IF fragID >= c.TotalFrags
    THEN [ctx |-> c, complete |-> FALSE, err |-> "invalid fragment ID"]
    ELSE LET c2 == [c EXCEPT !.Fragments[fragID] = data,
                             !.FragSizes[fragID] = U16(Len(data)),
                             !.ReceivedFrags = U16(c.ReceivedFrags + 1),
                             !.ReceivedPayloadSize = c.ReceivedPayloadSize + Len(data),
                             !.Header = IF fragID = 0 THEN <<hdr>> ELSE c.Header]
         IN  [ctx |-> c2, complete |-> c2.ReceivedFrags = c2.TotalFrags, err |-> ""]

\* AddFragment without the test of fragID against TotalFrags
AddFragment_noRangeTest(c, fragID, hdr, data) ==
    IF fragID >= FragMaxFragments
    THEN [ctx |-> c, complete |-> FALSE, err |-> IndexOutOfRange]
    ELSE IF c.Fragments[fragID] # Nil
    THEN [ctx |-> c, complete |-> FALSE, err |-> ""]
    ELSE LET c2 == [c EXCEPT !.Fragments[fragID] = data,
                             !.FragSizes[fragID] = U16(Len(data)),
                             !.ReceivedFrags = U16(c.ReceivedFrags + 1),
                             !.ReceivedPayloadSize = c.ReceivedPayloadSize + Len(data),
                             !.Header = IF fragID = 0 THEN <<hdr>> ELSE c.Header]
         IN  [ctx |-> c2, complete |-> c2.ReceivedFrags = c2.TotalFrags, err |-> ""]

\* AddFragment.  Fragments is an array of FragMaxFragments slots: an index
\* beyond it stops the program with a run-time panic, reported here as the
\* error IndexOutOfRange.
AddFragment(c, fragID, hdr, data) ==
    IF fragID >= c.TotalFrags
    THEN [ctx |-> c, complete |-> FALSE, err |-> "invalid fragment ID"]
    ELSE IF fragID >= FragMaxFragments
    THEN [ctx |-> c, complete |-> FALSE, err |-> IndexOutOfRange]
    ELSE IF c.Fragments[fragID] # Nil
    THEN [ctx |-> c, complete |-> FALSE, err |-> ""]
    ELSE LET c2 == [c EXCEPT !.Fragments[fragID] = data,
                             !.FragSizes[fragID] = U16(Len(data)),
                             !.ReceivedFrags = U16(c.ReceivedFrags + 1),
                             !.ReceivedPayloadSize = c.ReceivedPayloadSize + Len(data),
                             !.Header = IF fragID = 0 THEN <<hdr>> ELSE c.Header]
         IN  [ctx |-> c2, complete |-> c2.ReceivedFrags = c2.TotalFrags, err |-> ""]

\* the fragments i, i+1, ... of the context appended in index order
RECURSIVE AssembleFrom(_, _)
AssembleFrom(c, i) ==
    IF i >= c.TotalFrags THEN <<>> ELSE c.Fragments[i] \o AssembleFrom(c, i + 1)

Assemble(c) ==
    IF c.ReceivedFrags # c.TotalFrags
    THEN [hdr |-> NoHeader, payload |-> <<>>, err |-> "not all fragments received"]
    ELSE IF \E i \in 0..(c.TotalFrags - 1) : c.Fragments[i] = Nil
    THEN [hdr |-> NoHeader, payload |-> <<>>, err |-> "missing fragment"]
    ELSE IF c.Header = <<>>
    THEN [hdr |-> NoHeader, payload |-> <<>>, err |-> NilDereference]
    ELSE LET payload == AssembleFrom(c, 0)
         IN  [hdr |-> [c.Header[1] EXCEPT !.Flags = ClearFlag(c.Header[1].Flags, FlagFragment),
                                          !.FragID = 0,
                                          !.TotalFrags = 0,
                                          !.PayloadLen = U16(Len(payload))],
              payload |-> payload, err |-> ""]

\* one turn of the loop of FragmentPacket: the header of fragment i and what
\* Serialize returns for it
FragmentAt(hdr, payload, maxFragPayload, totalFrags, i) ==
    LET offset == i * maxFragPayload
        fragSize == IF offset + maxFragPayload > Len(payload)
                    THEN Len(payload) - offset ELSE maxFragPayload
        fragHeader == [hdr EXCEPT !.Flags = SetFlag(hdr.Flags, FlagFragment),
                                  !.FragID = i,
                                  !.TotalFrags = U16(totalFrags),
                                  !.PayloadLen = U16(fragSize)]
    IN  [hdr |-> fragHeader,
         ser |-> Serialize(fragHeader, SubSeq(payload, offset + 1, offset + fragSize))]

\* the loop of FragmentPacket: fragments 0 .. uint16(totalFrags) - 1 in
\* order, given up at the first that Serialize rejects
FragmentLoop(hdr, payload, maxFragPayload, totalFrags) ==
    LET n == U16(totalFrags)
        at == [i \in 0..(n - 1) |-> FragmentAt(hdr, payload, maxFragPayload, totalFrags, i)]
        bad == {i \in 0..(n - 1) : at[i].ser.err # ""}
    IN  IF bad # {}
        THEN [fragments |-> <<>>, headers |-> <<>>,
              err |-> at[CHOOSE i \in bad : \A k \in bad : i <= k].ser.err]
        ELSE [fragments |-> [k \in 1..n |-> at[k - 1].ser.data],
              headers |-> [k \in 1..n |-> at[k - 1].hdr], err |-> ""]

\* FragmentPacket with the number of fragments rounded down
FragmentPacket_roundsDown(hdr, payload, mtu) ==
    LET maxFragPayload == U32(mtu - HeaderSize - 4)
        totalFrags == Len(payload) \div maxFragPayload
    IN  IF maxFragPayload <= 0
        THEN [fragments |-> <<>>, headers |-> <<>>, err |-> "MTU too small for fragmentation"]
        ELSE IF Len(payload) <= maxFragPayload
        THEN [fragments |-> <<>>, headers |-> <<>>, err |-> ""]
        ELSE IF totalFrags > FragMaxFragments
        THEN [fragments |-> <<>>, headers |-> <<>>, err |-> "too many fragments required"]
        ELSE FragmentLoop(hdr, payload, maxFragPayload, totalFrags)

\* FragmentPacket; no fragments and no error when none is needed.  The
\* unsigned subtraction wraps in the model's word.
FragmentPacket(hdr, payload, mtu) ==
    LET maxFragPayload == U32(mtu - HeaderSize - 4)
        totalFrags == (Len(payload) + maxFragPayload - 1) \div maxFragPayload
    IN  IF maxFragPayload <= 0
        THEN [fragments |-> <<>>, headers |-> <<>>, err |-> "MTU too small for fragmentation"]
        ELSE IF Len(payload) <= maxFragPayload
        THEN [fragments |-> <<>>, headers |-> <<>>, err |-> ""]
        ELSE IF totalFrags > FragMaxFragments
        THEN [fragments |-> <<>>, headers |-> <<>>, err |-> "too many fragments required"]
        ELSE FragmentLoop(hdr, payload, maxFragPayload, totalFrags)

(***************************************************************************)
(* The operations of one ReliableContext, driven by its caller, its peer   *)
(* and the clock.                                                          *)
(***************************************************************************)
Reliable(seq) == [seq |-> seq, flags |-> FlagReliable, opcode |-> OpData]

Unreliable(seq) == [seq |-> seq, flags |-> 0, opcode |-> OpData]

FromPeer(p) == [pkt |-> p, fromPeer |-> TRUE, ok |-> TRUE]

\* the datagrams UDPRecv may hand to Recv: RELIABLE data in and out of the
\* window, unreliable data, ACKs, a datagram of another address, a failed read
RecvSeqs == (0..MaxRecvSeq) \cup {WindowSize, WordMod - 1}

RecvInputs ==
    { FromPeer(Reliable(s)) : s \in RecvSeqs }
    \cup { FromPeer(Unreliable(s)) : s \in {0, WindowSize} }
    \cup { FromPeer(AckPkt(s)) : s \in {0, 1} }
    \cup { [pkt |-> Reliable(0), fromPeer |-> FALSE, ok |-> TRUE],
           [pkt |-> NoPkt, fromPeer |-> TRUE, ok |-> FALSE] }

AckSeqs == 0..MaxSeq

ArqInit ==
    /\ ctx = NewReliableContext
    /\ delivered = {}
    /\ chanData = {}
    /\ chanAck = {}

TcpNoCall == [pc |-> "idle", want |-> 0, totalRead |-> 0, consumed |-> 0, split |-> FALSE]

TcpInit ==
    /\ conn = NewTCPConnection
    /\ tcpStream = <<>>
    /\ tcpFrames = <<>>
    /\ tcpClosed = FALSE
    /\ tcpCall = TcpNoCall
    /\ tcpOut = <<>>

FragInit ==
    /\ fctx = NewFragmentContext(0, 0, 0)
    /\ fragIn = [hdr |-> NoHeader, payload |-> <<>>, mtu |-> 0]
    /\ fragWire = <<>>
    /\ fragRet = [op |-> "", complete |-> FALSE, hdr |-> NoHeader, payload |-> <<>>, err |-> ""]
    /\ fragHist = [dup |-> FALSE, reordered |-> FALSE]

\* no codec call made yet
CodecNone ==
    [hdr |-> NoHeader, payload |-> <<>>, op |-> "",
     ser |-> [data |-> <<>>, err |-> ""],
     de  |-> [hdr |-> NoHeader, payload |-> <<>>, err |-> ""]]

CodecInit == codec = CodecNone

(***************************************************************************)
(* The package overproto: Init, Shutdown, SetHandler, Send and the AEAD    *)
(* key slot of package optimize.  A payload is its length; a config, a     *)
(* callback and a key are names, "nil" the nil value.                      *)
(***************************************************************************)
\* the package variables as the Go runtime initializes them
LibZero ==
    [initialized |-> FALSE, config |-> "nil", recvCallback |-> "nil",
     recvCtx |-> "nil", encryptionKey |-> "nil"]

\* Init that stores the config before it looks at the init flag
OverprotoInit_overwrite(l, cfg) ==
    [lib |-> [l EXCEPT !.config = IF cfg = "nil" THEN "NewConfig" ELSE cfg,
                       !.initialized = TRUE],
     err |-> IF l.initialized THEN "already initialized" ELSE ""]

\* Init(cfg), under mu
OverprotoInit(l, cfg) ==
    IF l.initialized
    THEN [lib |-> l, err |-> "already initialized"]
    ELSE [lib |-> [l EXCEPT !.config = IF cfg = "nil" THEN "NewConfig" ELSE cfg,
                            !.initialized = TRUE],
          err |-> ""]

SetEncryptionKey(l, key) == [l EXCEPT !.encryptionKey = key]

IsEncryptionEnabled(l) == l.encryptionKey # "nil"

ClearEncryptionKey(l) == [l EXCEPT !.encryptionKey = "nil"]

\* Shutdown(), under mu
OverprotoShutdown(l) ==
    IF ~l.initialized
    THEN l
    ELSE [ClearEncryptionKey(l) EXCEPT !.initialized = FALSE, !.config = "nil",
                                       !.recvCallback = "nil", !.recvCtx = "nil"]

SetHandler(l, callback, c) == [l EXCEPT !.recvCallback = callback, !.recvCtx = c]

\* a Send call: where it is, its arguments, the payload's length and flags as
\* they stand, and what it has done so far
NoSend ==
    [pc |-> "idle", conn |-> "", proto |-> 0, flags |-> 0, dataLen |-> 0,
     len |-> 0, compress |-> FALSE, encrypt |-> FALSE]

\* what a finished call returned and did
LogEntry(op, t, err) ==
    [op |-> op, t |-> t, err |-> err, n |-> 0, call |-> NoSend,
     hdr |-> NoHeader, via |-> ""]

SendReturn(t, call, err) == [LogEntry("Send", t, err) EXCEPT !.call = call]

\* Send without the test of the init flag
OverprotoSendCheck_unchecked(l, t, call) ==
    [call |-> [call EXCEPT !.pc = "checked"], ret |-> <<>>]

\* Send up to the release of the read lock: the init flag
OverprotoSendCheck(l, t, call) ==
    IF ~l.initialized
    THEN [call |-> NoSend, ret |-> <<SendReturn(t, call, "not initialized")>>]
    ELSE [call |-> [call EXCEPT !.pc = "checked"], ret |-> <<>>]

\* Send from the length check to IsEncryptionEnabled; effective is whether
\* Compress found the data compressible, newLen the length it produced
OverprotoSendPrepare(l, t, call, effective, newLen) ==
    IF call.dataLen > 65535
    THEN [call |-> NoSend,
          ret |-> <<SendReturn(t, call, "payload too large (max 65535 bytes)")>>]
    ELSE
    LET tried == call.len >= CompressThreshold /\ ~HasFlag(call.flags, FlagCompressed)
        c1 == IF tried
              THEN IF effective
                   THEN [call EXCEPT !.compress = TRUE, !.len = newLen,
                                     !.flags = SetFlag(call.flags, FlagCompressed)]
                   ELSE [call EXCEPT !.compress = TRUE]
              ELSE call
    IN  IF HasFlag(c1.flags, FlagEncrypted)
        THEN IF ~IsEncryptionEnabled(l)
             THEN [call |-> NoSend,
                   ret |-> <<SendReturn(t, c1, "encryption enabled but key not set")>>]
             ELSE [call |-> [c1 EXCEPT !.pc = "encrypt"], ret |-> <<>>]
        ELSE [call |-> [c1 EXCEPT !.pc = "dispatch"], ret |-> <<>>]

\* optimize.Encrypt and the joining of IV and ciphertext
OverprotoSendEncrypt(l, t, call) ==
    IF l.encryptionKey = "nil"
    THEN [call |-> NoSend, ret |-> <<SendReturn(t, call, "encryption key not set")>>]
    ELSE IF call.len = 0
    THEN [call |-> NoSend, ret |-> <<SendReturn(t, call, "empty data")>>]
    ELSE [call |-> [call EXCEPT !.pc = "dispatch", !.encrypt = TRUE,
                                !.len = AESIVSize + call.len + AESGCMTagSize],
          ret |-> <<>>]

\* Send from the stamping of the header to the transport write; unixTime is
\* the clock, writeOK the outcome of the socket write
OverprotoSendDispatch(t, call, unixTime, writeOK) ==
    LET hdr == [NewPacketHeader EXCEPT !.StreamID = 0, !.Opcode = OpData,
                                       !.Proto = call.proto, !.Flags = call.flags,
                                       !.PayloadLen = call.len % 65536,
                                       !.Timestamp = unixTime % WordMod,
                                       !.Seq = 0]
        written(via) ==
            IF writeOK
            THEN [SendReturn(t, call, "") EXCEPT !.n = HeaderSize + call.len + 4,
                                                 !.hdr = hdr, !.via = via]
            ELSE [SendReturn(t, call, "write error") EXCEPT !.via = via]
    IN  IF call.len > 65535 THEN SendReturn(t, call, "payload too large")
        ELSE IF unixTime < 0 THEN SendReturn(t, call, "timestamp conversion failed")
        ELSE IF call.proto = ProtoTCP
        THEN IF call.conn # "net.Conn"
             THEN SendReturn(t, call, "invalid connection type for TCP")
             ELSE written("TCPSend")
        ELSE IF call.proto = ProtoUDP
        THEN IF call.conn # "*net.UDPConn"
             THEN SendReturn(t, call, "invalid connection type for UDP")
             ELSE IF HasFlag(call.flags, FlagReliable)
             THEN written("UDPSend")
             ELSE written("UDPSend")
        ELSE SendReturn(t, call, "unsupported protocol")

LibInit ==
    /\ lib = LibZero
    /\ libSend = [t \in Callers |-> NoSend]
    /\ libLog = <<>>

(***************************************************************************)
(* Threads.  TCPRecv called by several threads on one TCPConnection: the   *)
(* mutex conn.mu (0 when free, else the thread holding it) and, for each   *)
(* thread, where its call is and the locals of the readExact it is in.     *)
(***************************************************************************)
TcpThreadOut == [pc |-> "out", want |-> 0, totalRead |-> 0, consumed |-> 0, got |-> {}]

TcpMtInit == tcpMt = [mu |-> 0, th |-> [t \in Callers |-> TcpThreadOut]]

(***************************************************************************)
(* The key slot of package optimize with its storage.  A key buffer is the *)
(* key it was filled with and the number of its leading bytes set to zero  *)
(* since; encryptionKey is the index of a buffer, 0 for nil; a slice       *)
(* copied from it is the same index.  wlock is keyMutex held for writing   *)
(* by ClearEncryptionKey; a read lock is held within one step only.  A     *)
(* reader keeps the key that was installed when it copied the slice (snap) *)
(* and the bytes its cipher was made from (used).                          *)
(***************************************************************************)
AESKeySize == 32

NoKeyBuf == [key |-> 0, zeroed |-> 0]

KeyReaderOut ==
    [pc |-> "out", op |-> "", buf |-> 0, snap |-> 0, used |-> NoKeyBuf, err |-> ""]

KeysZero ==
    [bufs |-> <<>>, encryptionKey |-> 0, wlock |-> FALSE, calls |-> 0,
     rd |-> [t \in Callers |-> KeyReaderOut]]

\* SetEncryptionKey(key), under the write lock: a new buffer, the key copied
KeySet(ks, key) ==
    [ks EXCEPT !.bufs = Append(ks.bufs, [key |-> key, zeroed |-> 0]),
               !.encryptionKey = Len(ks.bufs) + 1]

\* ClearEncryptionKey: the next n iterations of the loop that zeroes the
\* buffer in place
KeyClearZero(ks, n) ==
    LET b == ks.bufs[ks.encryptionKey]
        z == IF b.zeroed + n > AESKeySize THEN AESKeySize ELSE b.zeroed + n
    IN  [ks EXCEPT !.bufs[ks.encryptionKey].zeroed = z]

\* ClearEncryptionKey: encryptionKey = nil and the deferred Unlock
KeyClearEnd(ks) == [ks EXCEPT !.encryptionKey = 0, !.wlock = FALSE]

\* Encrypt or Decrypt of thread t up to the test of the key it copied under
\* the read lock
KeySnapshot(ks, t, op) ==
    [ks EXCEPT !.calls = ks.calls + 1,
               !.rd[t] =
        IF ks.encryptionKey = 0
        THEN [KeyReaderOut EXCEPT !.pc = "done", !.op = op,
                                  !.err = "encryption key not set"]
        ELSE [KeyReaderOut EXCEPT !.pc = "work", !.op = op,
                                  !.buf = ks.encryptionKey,
                                  !.snap = ks.bufs[ks.encryptionKey].key]]

\* aes.NewCipher(key) of thread t: the key bytes as the buffer holds them
KeyWork(ks, t) ==
    [ks EXCEPT !.rd[t].pc = "done", !.rd[t].used = ks.bufs[ks.rd[t].buf]]

KeysInit == keys = KeysZero

ConcInit ==
    /\ TcpMtInit
    /\ KeysInit

Init ==
    /\ ArqInit
    /\ TcpInit
    /\ FragInit
    /\ CodecInit
    /\ LibInit
    /\ ConcInit

SendOp(maxSeq, payloadOKs, writeOKs) ==
    /\ ctx.nextSeq < maxSeq
    /\ \E payloadOK \in payloadOKs, writeOK \in writeOKs :
         ctx' = SendFn(ctx, 0, payloadOK, writeOK).ctx
    /\ UNCHANGED <<delivered, chanData, chanAck>>
    /\ UNCHANGED otherVars

RecvOp(inputs) ==
    /\ \E d \in inputs :
         LET r == RecvFn(ctx, d)
         IN  /\ ctx' = r.ctx
             /\ delivered' = IF r.err = "" /\ HasFlag(r.hdr.flags, FlagReliable)
                             THEN delivered \cup {r.hdr.seq}
                             ELSE delivered
    /\ UNCHANGED <<chanData, chanAck>>
    /\ UNCHANGED otherVars

ProcessACKOp(acks) ==
    /\ \E ackSeq \in acks :
         /\ ProcessACKFn(ctx, ackSeq).ctx.dupACKCount <= MaxDupAcks
         /\ ctx' = ProcessACKFn(ctx, ackSeq).ctx
    /\ UNCHANGED <<delivered, chanData, chanAck>>
    /\ UNCHANGED otherVars

ProcessTimeoutsOp(fails) ==
    /\ \E failAt \in fails : ctx' = ProcessTimeoutsFn(ctx, failAt).ctx
    /\ UNCHANGED <<delivered, chanData, chanAck>>
    /\ UNCHANGED otherVars

TickOp(d) ==
    /\ ctx' = Elapse(ctx, d, AgeCap)
    /\ UNCHANGED <<delivered, chanData, chanAck>>
    /\ UNCHANGED otherVars

(***************************************************************************)
(* SpecSend: the send half under every interleaving of its caller's calls, *)
(* the ACKs handed to ProcessACK and the clock.                            *)
(***************************************************************************)
Send == SendOp(MaxSeq, BOOLEAN, BOOLEAN)

ProcessACK == ProcessACKOp(AckSeqs)

ProcessTimeouts == ProcessTimeoutsOp(0..1)

Tick == TickOp(TickMs)

NextSend ==
    \/ Send
    \/ ProcessACK
    \/ ProcessTimeouts
    \/ Tick

SpecSend == Init /\ [][NextSend]_vars

(***************************************************************************)
(* SpecRecv: the receive half under every sequence of datagrams.           *)
(***************************************************************************)
Recv == RecvOp(RecvInputs)

NextRecv == Recv

SpecRecv == Init /\ [][NextRecv]_vars

(***************************************************************************)
(* Spec: both halves of one context together, the clock in steps of AgeCap.*)
(***************************************************************************)
DuplexRecv == RecvOp({FromPeer(Reliable(0)), FromPeer(Reliable(1))})

TickLong == TickOp(AgeCap)

Next ==
    \/ Send
    \/ DuplexRecv
    \/ ProcessACK
    \/ ProcessTimeouts
    \/ TickLong

Spec == Init /\ [][Next]_vars

(***************************************************************************)
(* SpecWin: the send half filled to its window: no clock, every payload    *)
(* serializable, ACKs for the AckSpan + 1 oldest sequence numbers.         *)
(***************************************************************************)
WinAcks == { U32(ctx.sendBase + i) : i \in 0..AckSpan }

WinSend == SendOp(MaxSeqWin, {TRUE}, {TRUE})

WinProcessACK == ProcessACKOp(WinAcks)

NextWin ==
    \/ WinSend
    \/ WinProcessACK

SpecWin == Init /\ [][NextWin]_vars

(***************************************************************************)
(* SpecLink: the send half of one peer's context and the receive half of   *)
(* the other's (the halves share no field), joined by a channel that       *)
(* loses nothing and delivers every datagram before any timer fires. The   *)
(* sender's caller hands the seq of every ACK it receives to ProcessACK    *)
(* and runs ProcessTimeouts each time the retransmission timeout passes.   *)
(***************************************************************************)
SeqToSet(q) == { q[i] : i \in 1..Len(q) }

LinkSend ==
    /\ ctx.nextSeq < LinkMaxSeq
    /\ ~SendWindowFull(ctx)
    /\ LET r == SendFn(ctx, 0, TRUE, TRUE)
       IN  /\ ctx' = r.ctx
           /\ chanData' = chanData \cup SeqToSet(r.wire)
    /\ UNCHANGED <<delivered, chanAck>>
    /\ UNCHANGED otherVars

LinkDeliverData ==
    /\ \E p \in chanData :
         LET r == RecvFn(ctx, FromPeer(p))
         IN  /\ ctx' = r.ctx
             /\ chanData' = chanData \ {p}
             /\ chanAck' = chanAck \cup SeqToSet(r.wire)
             /\ delivered' = IF r.err = "" /\ HasFlag(r.hdr.flags, FlagReliable)
                             THEN delivered \cup {r.hdr.seq}
                             ELSE delivered
    /\ UNCHANGED otherVars

LinkDeliverAck ==
    /\ \E a \in chanAck :
         LET r == ProcessACKFn(ctx, a.seq)
         IN  /\ ctx' = r.ctx
             /\ chanAck' = chanAck \ {a}
             /\ chanData' = chanData \cup SeqToSet(r.wire)
    /\ UNCHANGED delivered
    /\ UNCHANGED otherVars

LinkTimeouts ==
    /\ chanData = {}
    /\ chanAck = {}
    /\ LET d == ctx.rtt.RTO + 1
           r == ProcessTimeoutsFn(Elapse(ctx, d, d), 0)
       IN  /\ ctx' = r.ctx
           /\ chanData' = chanData \cup SeqToSet(r.wire)
    /\ UNCHANGED <<delivered, chanAck>>
    /\ UNCHANGED otherVars

NextLink ==
    \/ LinkSend
    \/ LinkDeliverData
    \/ LinkDeliverAck
    \/ LinkTimeouts

SpecLink ==
    /\ Init
    /\ [][NextLink]_vars
    /\ WF_vars(LinkDeliverData)
    /\ WF_vars(LinkDeliverAck)
    /\ WF_vars(LinkTimeouts)


(***************************************************************************)
(* SpecWrap: the sender of SpecWin late in a long exchange.  The context   *)
(* has sent n packets and has had each acknowledged, every round trip      *)
(* under a millisecond; n is WrapLead short of the wrap of the sequence    *)
(* number.  SpecWin reaches the same context for small n.                  *)
(***************************************************************************)
LongRunContext(n) ==
    [NewReliableContext EXCEPT !.sendBase = n,
                               !.nextSeq = n,
                               !.lastACKSeq = n - 1,
                               !.cwnd = MaxCwnd,
                               !.inSlowStart = FALSE,
                               !.rtt = [SRTT |-> 0, RTTVar |-> 0, RTO |-> 0,
                                        SamplesCount |-> n]]

WrapStart == WordMod - WrapLead

InitWrap ==
    /\ ctx = LongRunContext(WrapStart)
    /\ delivered = {}
    /\ chanData = {}
    /\ chanAck = {}
    /\ TcpInit
    /\ FragInit
    /\ CodecInit
    /\ LibInit
    /\ ConcInit

WrapSend ==
    /\ U32(ctx.nextSeq - WrapStart) < MaxWrapSends
    /\ SendOp(WordMod, {TRUE}, {TRUE})

WrapProcessACK == ProcessACKOp(WinAcks)

NextWrap ==
    \/ WrapSend
    \/ WrapProcessACK

SpecWrap == InitWrap /\ [][NextWrap]_vars

(***************************************************************************)
(* TCP: the peer writes whole frames with TCPSend and may close; the       *)
(* receiver calls TCPRecv, one call at a time (the mutex); each Read of    *)
(* the socket inside readExact is a step and hands over any non-empty      *)
(* prefix of what is asked for.                                            *)
(***************************************************************************)
Min(a, b) == IF a < b THEN a ELSE b

TCPDone(r, consumed, split) ==
    [hdr |-> r.hdr, payload |-> r.payload, err |-> r.err,
     consumed |-> consumed, split |-> split]

\* TCPSend by the peer: Serialize, then Write of the whole frame
TCPSendOp ==
    /\ ~tcpClosed
    /\ Len(tcpFrames) < MaxFrames
    /\ \E p \in TcpPayloads :
         LET hdr == [NewPacketHeader EXCEPT !.Opcode = OpData,
                                            !.Seq = Len(tcpFrames),
                                            !.PayloadLen = Len(p)]
             s == Serialize(hdr, p)
         IN  /\ s.err = ""
             /\ tcpStream' = tcpStream \o s.data
             /\ tcpFrames' = Append(tcpFrames, [hdr |-> hdr, payload |-> p])
    /\ UNCHANGED <<conn, tcpClosed, tcpCall, tcpOut>>
    /\ UNCHANGED <<arqVars, fragVars, codecVars, libVars, concVars>>

\* the peer closes its end
TCPCloseOp ==
    /\ ~tcpClosed
    /\ tcpClosed' = TRUE
    /\ UNCHANGED <<conn, tcpStream, tcpFrames, tcpCall, tcpOut>>
    /\ UNCHANGED <<arqVars, fragVars, codecVars, libVars, concVars>>

\* entry of TCPRecv, up to its first Read
TCPRecvCall ==
    /\ tcpCall.pc = "idle"
    /\ Len(tcpOut) < MaxTcpCalls
    /\ LET r == TCPRun(conn)
       IN  /\ conn' = r.conn
           /\ IF r.done
              THEN /\ tcpOut' = Append(tcpOut, TCPDone(r, 0, FALSE))
                   /\ UNCHANGED tcpCall
              ELSE /\ tcpCall' = [pc |-> "read", want |-> r.want, totalRead |-> 0,
                                  consumed |-> 0, split |-> FALSE]
                   /\ UNCHANGED tcpOut
    /\ UNCHANGED <<tcpStream, tcpFrames, tcpClosed>>
    /\ UNCHANGED <<arqVars, fragVars, codecVars, libVars, concVars>>

\* one Read inside readExact returns n bytes; when readExact has all it
\* asked for, TCPRecv goes on to its next Read or to its return
TCPReadOp(sizes) ==
    /\ tcpCall.pc = "read"
    /\ tcpStream # <<>>
    /\ \E n \in 1..Min(tcpCall.want - tcpCall.totalRead, Len(tcpStream)) :
         /\ n \in sizes \/ n = Min(tcpCall.want - tcpCall.totalRead, Len(tcpStream))
         /\ LET c1 == [conn EXCEPT !.recvBuffer =
                           BufWrite(conn.recvBuffer, conn.recvBytesRead + tcpCall.totalRead,
                                    SubSeq(tcpStream, 1, n))]
                consumed == tcpCall.consumed + n
                split == tcpCall.split \/ n < tcpCall.want - tcpCall.totalRead
            IN  /\ tcpStream' = SubSeq(tcpStream, n + 1, Len(tcpStream))
                /\ IF tcpCall.totalRead + n < tcpCall.want
                   THEN /\ conn' = c1
                        /\ tcpCall' = [tcpCall EXCEPT !.totalRead = tcpCall.totalRead + n,
                                                      !.consumed = consumed,
                                                      !.split = split]
                        /\ UNCHANGED tcpOut
                   ELSE \E r \in {TCPRun(TCPAfterRead(c1))} :
                            /\ conn' = r.conn
                            /\ IF r.done
                               THEN /\ tcpOut' = Append(tcpOut, TCPDone(r, consumed, split))
                                    /\ tcpCall' = TcpNoCall
                               ELSE /\ tcpCall' = [pc |-> "read", want |-> r.want,
                                                   totalRead |-> 0, consumed |-> consumed,
                                                   split |-> split]
                                    /\ UNCHANGED tcpOut
    /\ UNCHANGED <<tcpFrames, tcpClosed>>
    /\ UNCHANGED <<arqVars, fragVars, codecVars, libVars, concVars>>

\* Read hands over any number of the bytes asked for
TCPRead == TCPReadOp(1..TCPRecvBufferSize)

\* Read returns 0 and io.EOF: the stream is drained and the peer has closed
TCPReadEOF ==
    /\ tcpCall.pc = "read"
    /\ tcpStream = <<>>
    /\ tcpClosed
    /\ conn' = [conn EXCEPT !.recvState = StateIdle]
    /\ tcpOut' = Append(tcpOut, [hdr |-> NoHeader, payload |-> <<>>, err |-> "EOF",
                                 consumed |-> tcpCall.consumed, split |-> tcpCall.split])
    /\ tcpCall' = TcpNoCall
    /\ UNCHANGED <<tcpStream, tcpFrames, tcpClosed>>
    /\ UNCHANGED <<arqVars, fragVars, codecVars, libVars, concVars>>

NextTCP ==
    \/ TCPSendOp
    \/ TCPCloseOp
    \/ TCPRecvCall
    \/ TCPRead
    \/ TCPReadEOF

SpecTCP == Init /\ [][NextTCP]_vars

(***************************************************************************)
(* Fragmenter: a packet is split, its fragments reach one context in any   *)
(* order and any number of times, Assemble is called at any moment.        *)
(***************************************************************************)
FragRet(op, complete, hdr, payload, err) ==
    [op |-> op, complete |-> complete, hdr |-> hdr, payload |-> payload, err |-> err]

\* FragmentPacket, once, on a payload of n bytes; the receiver's context for
\* the packet takes total_frags from the fragments' header
FragmentOp ==
    /\ fragRet.op = ""
    /\ \E n \in 0..MaxPayloadLen, mtu \in FragMTUs :
        LET payload == SubSeq(PayloadBytes, 1, n)
            hdr == [NewPacketHeader EXCEPT !.Opcode = OpData, !.StreamID = 1,
                                           !.Seq = 1, !.PayloadLen = n]
        IN  \E r \in {FragmentPacket(hdr, payload, mtu)} :
            /\ fragIn' = [hdr |-> hdr, payload |-> payload, mtu |-> mtu]
            /\ fragWire' = r.fragments
            /\ fctx' = IF r.fragments = <<>>
                       THEN NewFragmentContext(0, 0, 0)
                       ELSE NewFragmentContext(hdr.StreamID, hdr.Seq, r.headers[1].TotalFrags)
            /\ fragRet' = FragRet("FragmentPacket", FALSE, NoHeader, <<>>, r.err)
            /\ fragHist' = [dup |-> FALSE, reordered |-> FALSE]
            /\ UNCHANGED <<arqVars, tcpVars, codecVars, libVars, concVars>>

\* one fragment arrives: Deserialize, then AddFragment
AddFragmentOp ==
    /\ \E k \in 1..Len(fragWire) :
         \E d \in {Deserialize(fragWire[k])} :
         LET r == AddFragment(fctx, d.hdr.FragID, d.hdr, d.payload)
         IN  /\ d.err = ""
             /\ fctx' = r.ctx
             /\ fragRet' = FragRet("AddFragment", r.complete, NoHeader, <<>>, r.err)
             /\ fragHist' =
                  [dup |-> fragHist.dup \/ fctx.Fragments[d.hdr.FragID] # Nil,
                   reordered |-> fragHist.reordered
                                 \/ \E j \in (d.hdr.FragID + 1)..(FragMaxFragments - 1) :
                                        fctx.Fragments[j] # Nil]
    /\ UNCHANGED <<fragIn, fragWire>>
    /\ UNCHANGED <<arqVars, tcpVars, codecVars, libVars, concVars>>

AssembleOp ==
    /\ fragWire # <<>>
    /\ LET r == Assemble(fctx)
       IN  fragRet' = FragRet("Assemble", FALSE, r.hdr, r.payload, r.err)
    /\ UNCHANGED <<fctx, fragIn, fragWire, fragHist>>
    /\ UNCHANGED <<arqVars, tcpVars, codecVars, libVars, concVars>>

NextFrag ==
    \/ FragmentOp
    \/ AddFragmentOp
    \/ AssembleOp

SpecFrag == Init /\ [][NextFrag]_vars

(***************************************************************************)
(* SpecCodec: core/packet.go.  One header and payload, taken from the      *)
(* CodecInputs, is given to Serialize and the buffer it returns to         *)
(* Deserialize.                                                            *)
(***************************************************************************)
\* a payload one byte longer than Serialize accepts
OversizePayload == [i \in 1..(65535 + 1) |-> 0]

CodecPayloads == {<<>>, <<7>>, <<255, 0>>}

\* headers: right and wrong magic and version, every field set and unset,
\* payload_len equal to the payload's length or one more, the stamped
\* timestamp zero or not
CodecHeaders(payload) ==
    { [Magic |-> m, Version |-> v, Flags |-> f, Opcode |-> OpData, Proto |-> 2,
       StreamID |-> id, Seq |-> sq, FragID |-> fr[1], TotalFrags |-> fr[2],
       PayloadLen |-> Len(payload) + d, Timestamp |-> ts, CRC32 |-> 0] :
         m \in {Magic, 4660}, v \in {Version, 2}, f \in {0, 31},
         id \in {0, 16909060}, sq \in {0, 84281096},
         fr \in {<<0, 0>>, <<258, 772>>}, d \in {0, 1}, ts \in {0, 1730000000 % WordMod} }

CodecInputs ==
    { [CodecNone EXCEPT !.hdr = h, !.payload = p] :
          p \in CodecPayloads, h \in UNION { CodecHeaders(q) : q \in CodecPayloads } }
    \cup { [CodecNone EXCEPT !.hdr = [NewPacketHeader EXCEPT !.PayloadLen = 65535],
                             !.payload = OversizePayload] }

InitCodec ==
    /\ ArqInit
    /\ TcpInit
    /\ FragInit
    /\ LibInit
    /\ ConcInit
    /\ codec \in CodecInputs

SerializeOp ==
    /\ codec.op = ""
    /\ \E r \in {Serialize(codec.hdr, codec.payload)} :
         codec' = [codec EXCEPT !.op = "Serialize", !.ser = r]
    /\ UNCHANGED <<arqVars, tcpVars, fragVars, libVars, concVars>>

DeserializeOp ==
    /\ codec.op = "Serialize"
    /\ codec.ser.err = ""
    /\ \E r \in {Deserialize(codec.ser.data)} :
         codec' = [codec EXCEPT !.op = "Deserialize", !.de = r]
    /\ UNCHANGED <<arqVars, tcpVars, fragVars, libVars, concVars>>

NextCodec ==
    \/ SerializeOp
    \/ DeserializeOp

SpecCodec == InitCodec /\ [][NextCodec]_vars

(***************************************************************************)
(* SpecLib: the package overproto used by its callers in any order: Init,  *)
(* Shutdown, SetHandler, the key slot, and Send calls of several           *)
(* goroutines, each Send a sequence of steps between which the others      *)
(* run.  Init, Shutdown and SetHandler hold mu from start to end.          *)
(***************************************************************************)
\* the arguments of Send: conn, proto, flags, len(data)
SendArgs ==
    { [NoSend EXCEPT !.conn = a[1], !.proto = a[2], !.flags = a[3],
                     !.dataLen = a[4], !.len = a[4]] :
        a \in { <<"net.Conn", ProtoTCP, 0, 10>>,
                <<"*net.UDPConn", ProtoUDP, FlagReliable, 10>>,
                <<"*net.UDPConn", ProtoUDP, 0, 600>>,
                <<"*net.UDPConn", ProtoUDP, FlagEncrypted, 10>>,
                <<"net.Conn", ProtoTCP, FlagEncrypted, 65530>>,
                <<"net.Conn", ProtoUDP, 0, 10>>,
                <<"net.Conn", ProtoTCP, 0, 65536>> } }

\* calls finished and in progress
LibCalls == Len(libLog) + Cardinality({t \in Callers : libSend[t].pc # "idle"})

InitCall ==
    /\ LibCalls < MaxLibCalls
    /\ \E cfg \in {"nil", "cfg"} :
         LET r == OverprotoInit(lib, cfg)
         IN  /\ lib' = r.lib
             /\ libLog' = Append(libLog, LogEntry("Init", 0, r.err))
    /\ UNCHANGED libSend
    /\ UNCHANGED <<arqVars, tcpVars, fragVars, codecVars, concVars>>

ShutdownCall ==
    /\ LibCalls < MaxLibCalls
    /\ lib' = OverprotoShutdown(lib)
    /\ libLog' = Append(libLog, LogEntry("Shutdown", 0, ""))
    /\ UNCHANGED libSend
    /\ UNCHANGED <<arqVars, tcpVars, fragVars, codecVars, concVars>>

SetHandlerCall ==
    /\ LibCalls < MaxLibCalls
    /\ lib' = SetHandler(lib, "callback", "ctx")
    /\ libLog' = Append(libLog, LogEntry("SetHandler", 0, ""))
    /\ UNCHANGED libSend
    /\ UNCHANGED <<arqVars, tcpVars, fragVars, codecVars, concVars>>

SetEncryptionKeyCall ==
    /\ LibCalls < MaxLibCalls
    /\ lib' = SetEncryptionKey(lib, "key")
    /\ libLog' = Append(libLog, LogEntry("SetEncryptionKey", 0, ""))
    /\ UNCHANGED libSend
    /\ UNCHANGED <<arqVars, tcpVars, fragVars, codecVars, concVars>>

ClearEncryptionKeyCall ==
    /\ LibCalls < MaxLibCalls
    /\ lib' = ClearEncryptionKey(lib)
    /\ libLog' = Append(libLog, LogEntry("ClearEncryptionKey", 0, ""))
    /\ UNCHANGED libSend
    /\ UNCHANGED <<arqVars, tcpVars, fragVars, codecVars, concVars>>

\* a step of the Send of caller t that leaves the call at r.call and, when
\* it returns, logs r.ret
SendStep(t, r) ==
    /\ libSend' = [libSend EXCEPT ![t] = r.call]
    /\ libLog' = libLog \o r.ret
    /\ UNCHANGED lib
    /\ UNCHANGED <<arqVars, tcpVars, fragVars, codecVars, concVars>>

SendCheckOp ==
    /\ LibCalls < MaxLibCalls
    /\ \E t \in Callers, a \in SendArgs :
         /\ libSend[t].pc = "idle"
         /\ SendStep(t, OverprotoSendCheck(lib, t, a))

SendPrepareOp ==
    \E t \in Callers :
      /\ libSend[t].pc = "checked"
      /\ \E effective \in BOOLEAN :
           \E newLen \in IF effective THEN {libSend[t].len \div 2} ELSE {libSend[t].len} :
             SendStep(t, OverprotoSendPrepare(lib, t, libSend[t], effective, newLen))

SendEncryptOp ==
    \E t \in Callers :
      /\ libSend[t].pc = "encrypt"
      /\ SendStep(t, OverprotoSendEncrypt(lib, t, libSend[t]))

SendDispatchOp ==
    \E t \in Callers :
      /\ libSend[t].pc = "dispatch"
      /\ \E unixTime \in {1000}, writeOK \in BOOLEAN :
           SendStep(t, [call |-> NoSend,
                        ret  |-> <<OverprotoSendDispatch(t, libSend[t], unixTime, writeOK)>>])

NextLib ==
    \/ InitCall
    \/ ShutdownCall
    \/ SetHandlerCall
    \/ SetEncryptionKeyCall
    \/ ClearEncryptionKeyCall
    \/ SendCheckOp
    \/ SendPrepareOp
    \/ SendEncryptOp
    \/ SendDispatchOp

SpecLib == Init /\ [][NextLib]_vars

(***************************************************************************)
(* SpecStall: the send half run long enough for a packet to exhaust its    *)
(* retries and for the caller to keep sending behind it.                   *)
(***************************************************************************)
MaxStallSeq == 5

StallSend == SendOp(MaxStallSeq, {TRUE}, {TRUE})

StallProcessACK == ProcessACKOp(0..2)

StallTimeouts == ProcessTimeoutsOp(0..1)

NextStall ==
    \/ StallSend
    \/ StallProcessACK
    \/ StallTimeouts
    \/ TickLong

SpecStall == Init /\ [][NextStall]_vars

(***************************************************************************)
(* SpecCwnd: the send half under a caller that keeps at most MaxOutstanding *)
(* packets outstanding, long enough for the congestion window to grow to   *)
(* its cap, collapse on a timeout and grow again.  Every ACK arrives within *)
(* a millisecond of the (re)transmission it answers, or not before the      *)
(* timer has run, and none is retransmitted more than MaxCwndRetries times.*)
(***************************************************************************)
MaxCwndSeq == 40

MaxOutstanding == 2

MaxCwndRetries == 2

CwndSend ==
    /\ U32(ctx.nextSeq - ctx.sendBase) < MaxOutstanding
    /\ SendOp(MaxCwndSeq, {TRUE}, {TRUE})

CwndProcessACK == ProcessACKOp({ctx.sendBase, U32(ctx.sendBase + 1)})

\* the caller's timer: ProcessTimeouts runs once the clock has passed AgeCap
CwndTimer ==
    /\ \A i \in 0..(WindowSize - 1) : ctx.sendWindow[i].RetryCount < MaxCwndRetries
    /\ ctx' = ProcessTimeoutsFn(Elapse(ctx, AgeCap, AgeCap), 0).ctx
    /\ UNCHANGED <<delivered, chanData, chanAck>>
    /\ UNCHANGED otherVars

NextCwnd ==
    \/ CwndSend
    \/ CwndProcessACK
    \/ CwndTimer

SpecCwnd == Init /\ [][NextCwnd]_vars

(***************************************************************************)
(* SpecTCPFault: SpecTCP with a socket whose Read may fail (a read deadline *)
(* that expires, a reset) and a stream in which a frame may arrive with a  *)
(* damaged CRC.                                                            *)
(***************************************************************************)
TcpIOErrors == {"i/o timeout", "connection reset by peer"}

\* the Reads that fail in one run
MaxReadErrors == 1

\* the TCPRecv calls of one run
MaxFaultCalls == 2

\* entry of TCPRecv, up to its first Read
TCPFaultRecvCall ==
    /\ Len(tcpOut) < MaxFaultCalls
    /\ TCPRecvCall

TcpDamage == {"", "magic", "version", "crc"}

\* the payload of the i-th frame of SpecTCPFault: i bytes
TcpFaultPayload(i) == SubSeq(PayloadBytes, 1, i)

\* the frame bytes with one byte of the named field changed
Damaged(data, bad) ==
    LET at == CASE bad = "magic"   -> 1
                [] bad = "version" -> 3
                [] bad = "crc"     -> Len(data)
                [] OTHER           -> 0
    IN  [i \in 1..Len(data) |-> IF i = at THEN (data[i] + 1) % 256 ELSE data[i]]

\* the peer writes a whole frame, damaged or not
TCPWriteOp(damage) ==
    /\ ~tcpClosed
    /\ Len(tcpFrames) < MaxFrames
    /\ \E bad \in damage :
         LET p == TcpFaultPayload(Len(tcpFrames) + 1)
             hdr == [NewPacketHeader EXCEPT !.Opcode = OpData,
                                            !.Seq = Len(tcpFrames),
                                            !.PayloadLen = Len(p)]
             s == Serialize(hdr, p)
         IN  /\ s.err = ""
             /\ tcpStream' = tcpStream \o Damaged(s.data, bad)
             /\ tcpFrames' = Append(tcpFrames, [hdr |-> hdr, payload |-> p, bad |-> bad])
    /\ UNCHANGED <<conn, tcpClosed, tcpCall, tcpOut>>
    /\ UNCHANGED <<arqVars, fragVars, codecVars, libVars, concVars>>

\* Read hands over all it can, or a chunk of 19 bytes
TcpChunks == {19}

TCPReadChunk == TCPReadOp(TcpChunks)

\* Read fails with an error other than io.EOF: readExact hands it to TCPRecv,
\* which resets the state machine and returns it
TCPReadError ==
    /\ tcpCall.pc = "read"
    /\ Cardinality({ i \in 1..Len(tcpOut) : tcpOut[i].err \in TcpIOErrors }) < MaxReadErrors
    /\ \E e \in TcpIOErrors :
         LET r == TCPReadFail(conn, e)
         IN  /\ conn' = r.conn
             /\ tcpOut' = Append(tcpOut, TCPDone(r, tcpCall.consumed, tcpCall.split))
    /\ tcpCall' = TcpNoCall
    /\ UNCHANGED <<tcpStream, tcpFrames, tcpClosed>>
    /\ UNCHANGED <<arqVars, fragVars, codecVars, libVars, concVars>>

\* the frames of SpecTCPFault are whole or have a damaged CRC
TCPWriteFault == TCPWriteOp({"", "crc"})

NextTCPFault ==
    \/ TCPWriteFault
    \/ TCPCloseOp
    \/ TCPFaultRecvCall
    \/ TCPReadChunk
    \/ TCPReadEOF
    \/ TCPReadError

SpecTCPFault == Init /\ [][NextTCPFault]_vars

(***************************************************************************)
(* SpecTCPDamage: a socket whose Reads succeed, and a stream in which any  *)
(* frame may be damaged in its magic, its version or its CRC.              *)
(***************************************************************************)
TCPWriteDamaged == TCPWriteOp(TcpDamage)

NextTCPDamage ==
    \/ TCPWriteDamaged
    \/ TCPFaultRecvCall
    \/ TCPReadChunk

SpecTCPDamage == Init /\ [][NextTCPDamage]_vars

(***************************************************************************)
(* TCPRecv called by several threads on one TCPConnection.  tcpMt.mu is    *)
(* the holder of conn.mu, 0 when it is free; a thread is out of the call,  *)
(* waiting in Lock, running the loop, blocked in a Read of readExact, or   *)
(* returning through the deferred Unlock.  The locals of readExact and the *)
(* bytes a call took from the stream belong to the thread; conn is shared. *)
(***************************************************************************)
MaxMtCalls == 3

\* a mutex that never makes a caller wait
TCPLockFree_always(mu) == TRUE

\* conn.mu.Lock() returns only when no thread holds the mutex
TCPLockFree(mu) == mu = 0

MtCalls == Len(tcpOut) + Cardinality({t \in Callers : tcpMt.th[t].pc # "out"})

\* a thread calls TCPRecv and reaches conn.mu.Lock()
TCPRecvBegin(t) ==
    /\ tcpMt.th[t].pc = "out"
    /\ MtCalls < MaxMtCalls
    /\ tcpMt' = [tcpMt EXCEPT !.th[t].pc = "wait"]
    /\ UNCHANGED tcpVars
    /\ UNCHANGED <<arqVars, fragVars, codecVars, libVars, keys>>

\* conn.mu.Lock() returns
TCPRecvLock(t) ==
    /\ tcpMt.th[t].pc = "wait"
    /\ TCPLockFree(tcpMt.mu)
    /\ tcpMt' = [tcpMt EXCEPT !.mu = t, !.th[t].pc = "run"]
    /\ UNCHANGED tcpVars
    /\ UNCHANGED <<arqVars, fragVars, codecVars, libVars, keys>>

\* the state a thread is left in by the loop: blocked in readExact for
\* r.want bytes, or at the return with its result appended to tcpOut
MtAfterRun(t, r, consumed) ==
    /\ conn' = r.conn
    /\ IF r.done
       THEN /\ tcpOut' = Append(tcpOut, TCPDone(r, consumed, FALSE))
            /\ tcpMt' = [tcpMt EXCEPT !.th[t] =
                            [pc |-> "unlock", want |-> 0, totalRead |-> 0, consumed |-> 0,
                             got |-> tcpMt.th[t].got \cup {Len(tcpOut) + 1}]]
       ELSE /\ tcpMt' = [tcpMt EXCEPT !.th[t] =
                            [pc |-> "read", want |-> r.want, totalRead |-> 0,
                             consumed |-> consumed, got |-> tcpMt.th[t].got]]
            /\ UNCHANGED tcpOut

\* the loop of TCPRecv from its entry up to the first Read
TCPRecvEnter(t) ==
    /\ tcpMt.th[t].pc = "run"
    /\ \E r \in {TCPRun(conn)} : MtAfterRun(t, r, 0)
    /\ UNCHANGED <<tcpStream, tcpFrames, tcpClosed, tcpCall>>
    /\ UNCHANGED <<arqVars, fragVars, codecVars, libVars, keys>>

\* one Read inside the thread's readExact returns n bytes
TCPRecvRead(t) ==
    /\ tcpMt.th[t].pc = "read"
    /\ tcpStream # <<>>
    /\ LET me == tcpMt.th[t]
           most == Min(me.want - me.totalRead, Len(tcpStream))
       IN  \E n \in {k \in 1..most : k \in TcpChunks \/ k = most} :
             LET c1 == [conn EXCEPT !.recvBuffer =
                           BufWrite(conn.recvBuffer, conn.recvBytesRead + me.totalRead,
                                    SubSeq(tcpStream, 1, n))]
             IN  /\ tcpStream' = SubSeq(tcpStream, n + 1, Len(tcpStream))
                 /\ IF me.totalRead + n < me.want
                    THEN /\ conn' = c1
                         /\ tcpMt' = [tcpMt EXCEPT !.th[t].totalRead = me.totalRead + n,
                                                   !.th[t].consumed = me.consumed + n]
                         /\ UNCHANGED tcpOut
                    ELSE \E r \in {TCPRun(TCPAfterRead(c1))} :
                             MtAfterRun(t, r, me.consumed + n)
    /\ UNCHANGED <<tcpFrames, tcpClosed, tcpCall>>
    /\ UNCHANGED <<arqVars, fragVars, codecVars, libVars, keys>>

\* the deferred conn.mu.Unlock()
TCPRecvUnlock(t) ==
    /\ tcpMt.th[t].pc = "unlock"
    /\ tcpMt' = [tcpMt EXCEPT !.mu = 0, !.th[t].pc = "out"]
    /\ UNCHANGED tcpVars
    /\ UNCHANGED <<arqVars, fragVars, codecVars, libVars, keys>>

TCPRecvBegins == \E t \in Callers : TCPRecvBegin(t)
TCPRecvLocks == \E t \in Callers : TCPRecvLock(t)
TCPRecvEnters == \E t \in Callers : TCPRecvEnter(t)
TCPRecvReads == \E t \in Callers : TCPRecvRead(t)
TCPRecvUnlocks == \E t \in Callers : TCPRecvUnlock(t)

NextTCPThreads ==
    \/ TCPSendOp
    \/ TCPRecvBegins
    \/ TCPRecvLocks
    \/ TCPRecvEnters
    \/ TCPRecvReads
    \/ TCPRecvUnlocks

SpecTCPThreads == Init /\ [][NextTCPThreads]_vars

(***************************************************************************)
(* SpecSplit: FragmentPacket as a function of its arguments.  The initial  *)
(* state holds one call's header, payload and MTU: short payloads with the *)
(* MTUs around HeaderSize + 4, the payloads that need FragMaxFragments     *)
(* fragments and one more, and an MTU that lets a fragment's payload pass  *)
(* the largest payload_len.  SplitOp makes the call.                       *)
(***************************************************************************)
MaxSplitLen == 6

SplitPayload(n) == [i \in 1..n |-> (i * 7) % 256]

SplitMTUs == (HeaderSize + 3)..(HeaderSize + 7)

SplitSizes ==
    ((0..MaxSplitLen) \X SplitMTUs)
    \cup { <<FragMaxFragments, HeaderSize + 5>>,
           <<FragMaxFragments + 1, HeaderSize + 5>>,
           <<MaxPayloadSize + 2, HeaderSize + 4 + MaxPayloadSize + 1>> }

InitSplit ==
    /\ ArqInit /\ TcpInit /\ CodecInit /\ LibInit /\ ConcInit
    /\ fctx = NewFragmentContext(0, 0, 0)
    /\ fragWire = <<>>
    /\ fragRet = FragRet("", FALSE, NoHeader, <<>>, "")
    /\ fragHist = [dup |-> FALSE, reordered |-> FALSE]
    /\ \E s \in SplitSizes, f \in {0, FlagReliable} :
         fragIn = [hdr |-> [NewPacketHeader EXCEPT !.Opcode = OpData, !.StreamID = 1,
                                                   !.Seq = 1, !.Flags = f,
                                                   !.PayloadLen = U16(s[1])],
                   payload |-> SplitPayload(s[1]), mtu |-> s[2]]

\* FragmentPacket(hdr, payload, mtu)
SplitOp ==
    /\ fragRet.op = ""
    /\ \E r \in {FragmentPacket(fragIn.hdr, fragIn.payload, fragIn.mtu)} :
         /\ fragWire' = r.fragments
         /\ fragRet' = FragRet("FragmentPacket", FALSE, NoHeader, <<>>, r.err)
    /\ UNCHANGED <<fctx, fragIn, fragHist>>
    /\ UNCHANGED <<arqVars, tcpVars, codecVars, libVars, concVars>>

NextSplit == SplitOp

SpecSplit == InitSplit /\ [][NextSplit]_vars

(***************************************************************************)
(* SpecReasm: reassembly of what a peer sends.  A context is created with  *)
(* the total_frags of a received header, whatever it is; fragments arrive  *)
(* with any frag_id and with payloads of one byte or of half the 65536;    *)
(* Assemble is called at any moment.  fragRet keeps the header of the      *)
(* fragment given to the last AddFragment.                                 *)
(***************************************************************************)
MaxReasmFrags == 2

\* the largest payload of an arriving fragment, and the bytes one context
\* is given to hold
MaxFragBytes == 32768

MaxReasmBytes == 2 * MaxFragBytes

\* total_frags of the header that creates the context
ReasmTotals == (0..MaxReasmFrags) \cup {FragMaxFragments + 1}

\* frag_id of an arriving fragment
ReasmIDs ==
    (0..MaxReasmFrags) \cup {FragMaxFragments - 1, FragMaxFragments, MaxPayloadSize}

\* payload sizes of an arriving fragment
ReasmSizes == {1, MaxFragBytes}

ReasmData(n) == [i \in 1..n |-> n % 256]

\* the first FRAG packet of a (stream, seq): NewFragmentContext
ReasmNewOp ==
    /\ fragRet.op = ""
    /\ \E tf \in ReasmTotals : fctx' = NewFragmentContext(1, 1, tf)
    /\ fragRet' = FragRet("NewFragmentContext", FALSE, NoHeader, <<>>, "")
    /\ UNCHANGED <<fragIn, fragWire, fragHist>>
    /\ UNCHANGED <<arqVars, tcpVars, codecVars, libVars, concVars>>

\* a FRAG packet arrives: AddFragment
ReasmAddOp ==
    /\ fragRet.op # ""
    /\ fragRet.err \notin {IndexOutOfRange, NilDereference}
    /\ \E id \in ReasmIDs, n \in ReasmSizes :
         /\ fctx.ReceivedPayloadSize + n <= MaxReasmBytes
         /\ LET hdr == [NewPacketHeader EXCEPT !.Opcode = OpData, !.StreamID = 1,
                                               !.Seq = 1, !.Flags = FlagFragment,
                                               !.FragID = id,
                                               !.TotalFrags = fctx.TotalFrags,
                                               !.PayloadLen = n]
            IN  \E r \in {AddFragment(fctx, id, hdr, ReasmData(n))} :
                   /\ fctx' = r.ctx
                   /\ fragRet' = FragRet("AddFragment", r.complete, hdr, <<>>, r.err)
    /\ UNCHANGED <<fragIn, fragWire, fragHist>>
    /\ UNCHANGED <<arqVars, tcpVars, codecVars, libVars, concVars>>

ReasmAssembleOp ==
    /\ fragRet.op # ""
    /\ fragRet.err \notin {IndexOutOfRange, NilDereference}
    /\ \E r \in {Assemble(fctx)} :
         fragRet' = FragRet("Assemble", FALSE, r.hdr, r.payload, r.err)
    /\ UNCHANGED <<fctx, fragIn, fragWire, fragHist>>
    /\ UNCHANGED <<arqVars, tcpVars, codecVars, libVars, concVars>>

NextReasm ==
    \/ ReasmNewOp
    \/ ReasmAddOp
    \/ ReasmAssembleOp

SpecReasm == Init /\ [][NextReasm]_vars

(***************************************************************************)
(* SpecKeys: the key slot used by several threads.  SetEncryptionKey runs  *)
(* under the write lock in one step; ClearEncryptionKey takes the write    *)
(* lock, zeroes the installed buffer some bytes at a time, sets the slot   *)
(* to nil and unlocks (Shutdown does the same through it); Encrypt and     *)
(* Decrypt copy the slice under the read lock and make their cipher from   *)
(* it after the lock is released.                                          *)
(***************************************************************************)
MaxKeys == 2

MaxKeyCalls == 3

\* bytes zeroed between two steps of other threads
ZeroStep == 16

\* the keys the application installs, by name
KeyValues == {11, 22}

SetEncryptionKeyOp ==
    /\ ~keys.wlock
    /\ Len(keys.bufs) < MaxKeys
    /\ \E k \in KeyValues : keys' = KeySet(keys, k)
    /\ UNCHANGED tcpMt
    /\ UNCHANGED <<arqVars, tcpVars, fragVars, codecVars, libVars>>

\* ClearEncryptionKey: keyMutex.Lock()
ClearLockOp ==
    /\ ~keys.wlock
    /\ keys.encryptionKey # 0
    /\ keys' = [keys EXCEPT !.wlock = TRUE]
    /\ UNCHANGED tcpMt
    /\ UNCHANGED <<arqVars, tcpVars, fragVars, codecVars, libVars>>

\* ClearEncryptionKey: some turns of the zeroing loop
ClearZeroOp ==
    /\ keys.wlock
    /\ keys.bufs[keys.encryptionKey].zeroed < AESKeySize
    /\ keys' = KeyClearZero(keys, ZeroStep)
    /\ UNCHANGED tcpMt
    /\ UNCHANGED <<arqVars, tcpVars, fragVars, codecVars, libVars>>

\* ClearEncryptionKey: the loop is over; nil and Unlock
ClearEndOp ==
    /\ keys.wlock
    /\ keys.bufs[keys.encryptionKey].zeroed = AESKeySize
    /\ keys' = KeyClearEnd(keys)
    /\ UNCHANGED tcpMt
    /\ UNCHANGED <<arqVars, tcpVars, fragVars, codecVars, libVars>>

\* Encrypt or Decrypt: RLock, key := encryptionKey, RUnlock, the nil test
KeySnapshotOp ==
    /\ ~keys.wlock
    /\ keys.calls < MaxKeyCalls
    /\ \E t \in Callers, op \in {"Encrypt", "Decrypt"} :
         /\ keys.rd[t].pc \in {"out", "done"}
         /\ keys' = KeySnapshot(keys, t, op)
    /\ UNCHANGED tcpMt
    /\ UNCHANGED <<arqVars, tcpVars, fragVars, codecVars, libVars>>

\* Encrypt or Decrypt: aes.NewCipher(key) and the rest of the call
KeyWorkOp ==
    /\ \E t \in Callers :
         /\ keys.rd[t].pc = "work"
         /\ keys' = KeyWork(keys, t)
    /\ UNCHANGED tcpMt
    /\ UNCHANGED <<arqVars, tcpVars, fragVars, codecVars, libVars>>

NextKeys ==
    \/ SetEncryptionKeyOp
    \/ ClearLockOp
    \/ ClearZeroOp
    \/ ClearEndOp
    \/ KeySnapshotOp
    \/ KeyWorkOp

SpecKeys == Init /\ [][NextKeys]_vars

(***************************************************************************)
(* Claims                                                                  *)
(***************************************************************************)
InFlight(c) == U32(c.nextSeq - c.sendBase)

\* seq lies in [base, base + WindowSize), modulo the word
InWindow(base, seq) == U32(seq - base) < WindowSize

Unacked(st) == st \in {StateSent, StateRetransmit}

C2_OrderedDelivery ==
    [][\A s \in delivered' \ delivered : s = ctx.recvBase]_vars

\* C3: over a channel that delivers every datagram, with every ACK handed to
\* ProcessACK and ProcessTimeouts run again and again, whatever Send has
\* accepted is eventually acknowledged: send_base catches up with next_seq.
C3_ReliableDelivery ==
    (ctx.nextSeq > 0) ~> (ctx.sendBase = ctx.nextSeq)

\* C4 as stated: whatever packet Recv returns for a datagram of the peer has
\* its seq inside the receive window of the moment.
C4_NoFalseDelivery_AnyPacket ==
    \A d \in RecvInputs :
        LET r == RecvFn(ctx, d)
        IN  (d.ok /\ d.fromPeer /\ r.err = "") => InWindow(ctx.recvBase, r.hdr.seq)

\* C4 amended: whatever RELIABLE packet Recv returns for a datagram of the
\* peer has its seq inside the receive window of the moment.
C4_NoFalseDelivery ==
    \A d \in RecvInputs :
        LET r == RecvFn(ctx, d)
        IN  (d.ok /\ d.fromPeer /\ r.err = "" /\ HasFlag(r.hdr.flags, FlagReliable))
                => InWindow(ctx.recvBase, r.hdr.seq)

\* C4 witness: seq 0 and 1 were delivered and the window has moved past them;
\* seq 0 is refused now, the far end of the window is accepted
C4_Witness ==
    /\ delivered = {0, 1}
    /\ ctx.recvBase = 2
    /\ RecvFn(ctx, FromPeer(Reliable(0))).err = "sequence number out of receive window"
    /\ RecvFn(ctx, FromPeer(Reliable(WindowSize))).err = ""

\* C5: no step moves send_base or recv_base backwards: each stays or advances
\* (by at most the window).
C5_MonotonicBases ==
    [][ /\ U32(ctx'.sendBase - ctx.sendBase) <= WindowSize
        /\ U32(ctx'.recvBase - ctx.recvBase) <= WindowSize ]_vars

\* C5 witness: both bases have advanced by two
C5_Witness ==
    /\ ctx.sendBase = 2
    /\ ctx.recvBase = 2
    /\ delivered = {0, 1}

\* C6: the number of sequence numbers in flight, next_seq - send_base in the
\* arithmetic of the sequence number, is between 0 and 32; where next_seq has
\* not wrapped past send_base that is send_base <= next_seq <= send_base + 32.
C6_SendWindowInvariant ==
    /\ InFlight(ctx) \in 0..WindowSize
    /\ ctx.sendBase <= ctx.nextSeq => ctx.nextSeq <= ctx.sendBase + WindowSize

\* C6 witness: the window has advanced and the context refuses a further Send
C6_Witness ==
    /\ ctx.sendBase > 0
    /\ ctx.cwnd = MaxCwnd
    /\ InFlight(ctx) > 0
    /\ SendWindowFull(ctx)

\* C7: with cwnd = 32 Send succeeds as long as fewer than 32 sequence numbers
\* are in flight and fails with the window full at 32.
C7_WindowExactlyFull ==
    ctx.cwnd = MaxCwnd =>
        /\ InFlight(ctx) < WindowSize => SendFn(ctx, 0, TRUE, TRUE).err = ""
        /\ InFlight(ctx) = WindowSize => SendFn(ctx, 0, TRUE, TRUE).err = "send window full"

\* C8: ProcessACK(a) twice in a row leaves the context as one call leaves it,
\* and the two calls together write the datagrams one call writes.
C8_IdempotentACK ==
    \A a \in AckSeqs :
        LET r1 == ProcessACKFn(ctx, a)
            r2 == ProcessACKFn(r1.ctx, a)
        IN  /\ r2.ctx = r1.ctx
            /\ SeqToSet(r1.wire \o r2.wire) = SeqToSet(r1.wire)

\* the number of consecutive ACKed slots from sendBase + i on, among the
\* sequence numbers in flight
RECURSIVE AckedRun(_, _)
AckedRun(c, i) ==
    IF i < InFlight(c)
       /\ c.sendWindow[getWindowIndex(U32(c.sendBase + i))].State = StateACKed
    THEN 1 + AckedRun(c, i + 1)
    ELSE 0

\* C9: when the slot at send_base is unacknowledged and the k slots after it
\* are ACKED, the ProcessACK call that acknowledges send_base advances
\* send_base by k + 1 and leaves those k + 1 slots EMPTY.
C9_CumulativeAdvance ==
    LET base == ctx.sendBase
        k    == AckedRun(ctx, 1)
        r    == ProcessACKFn(ctx, base)
    IN  ( /\ Unacked(ctx.sendWindow[getWindowIndex(base)].State)
          /\ ~Unacked(r.ctx.sendWindow[getWindowIndex(base)].State) )
        => /\ r.ctx.sendBase = U32(base + k + 1)
           /\ \A i \in 0..k :
                  r.ctx.sendWindow[getWindowIndex(U32(base + i))] = EmptySlot

\* SpecWin reaches the long-run context: the sender after 40 packets sent
\* and acknowledged
LongRunReached == ctx = LongRunContext(40)

\* C9, the example of the claim: Send of seq 0..3, then ACK 1, 2, 3 and last
\* ACK 0: send_base went from 0 to 4 on that ACK
C9_Example ==
    /\ ctx.nextSeq = 4
    /\ ctx.sendBase = 4
    /\ ctx.lastACKSeq = 0
    /\ ctx.cwnd = InitialCwnd + 4

WireFields(h) ==
    <<h.Magic, h.Version, h.Flags, h.Opcode, h.Proto, h.StreamID, h.Seq,
      h.FragID, h.TotalFrags, h.PayloadLen, h.Timestamp>>

\* the header and payload the codec round trip is claimed for
CodecValid(h, payload) ==
    /\ h.Magic = Magic
    /\ h.Version = Version
    /\ h.Timestamp = 0
    /\ h.PayloadLen = Len(payload)
    /\ Len(payload) <= 65535

C11_WitnessOversize ==
    /\ codec.op = "Serialize"
    /\ Len(codec.payload) = 65535 + 1
    /\ codec.ser.err # ""


\* the step finishes a call of the package
Returned == Len(libLog') = Len(libLog) + 1

\* what the call that the step finishes returned
LastReturn == libLog'[Len(libLog')]

\* C12, each call: an Init call succeeds exactly when the library is not
\* initialized at the moment it runs, and a rejected one returns "already
\* initialized" and leaves config, init flag, callback and key as they were
C12_InitStep ==
    (Returned /\ LastReturn.op = "Init") =>
        /\ (LastReturn.err = "") <=> ~lib.initialized
        /\ LastReturn.err = "" => lib'.initialized
        /\ LastReturn.err # "" => (LastReturn.err = "already initialized" /\ lib' = lib)

\* C12, several calls: two Init calls that both succeeded have a Shutdown
\* between them
C12_OneInitSucceeds ==
    \A i, j \in 1..Len(libLog) :
        (i < j /\ libLog[i].op = "Init" /\ libLog[i].err = ""
               /\ libLog[j].op = "Init" /\ libLog[j].err = "")
        => \E k \in (i + 1)..(j - 1) : libLog[k].op = "Shutdown"

\* C12: Init is idempotent-reject: in any interleaving of Init and Shutdown
\* (and the other calls) an Init succeeds iff the library is not initialized
\* when it runs, a rejected Init changes nothing, and of several Init calls
\* with no Shutdown in between exactly one succeeds.
C12_InitIdempotentReject == [][C12_InitStep]_vars /\ []C12_OneInitSucceeds

\* C12 witness: Init with a config succeeded, a second Init was rejected and
\* the config of the first is still stored
C12_Witness ==
    /\ Len(libLog) >= 2
    /\ libLog[1].op = "Init" /\ libLog[1].err = ""
    /\ libLog[2].op = "Init" /\ libLog[2].err = "already initialized"
    /\ lib.initialized
    /\ lib.config = "cfg"

\* C13: after a Shutdown call returns, from whatever state it was called in,
\* the key slot is empty, the callback is unbound and the init flag is false
C13_ShutdownPostcondition ==
    [][(Returned /\ LastReturn.op = "Shutdown") =>
          /\ ~IsEncryptionEnabled(lib')
          /\ lib'.recvCallback = "nil"
          /\ ~lib'.initialized]_vars

\* C14: a Send call that starts while the init flag is false returns "not
\* initialized" at once: no compression, no encryption, no transport write
C14_SendNotInitialized ==
    [][\A t \in Callers :
          ( /\ libSend[t].pc = "idle"
            /\ ~lib.initialized
            /\ \/ libSend'[t] # libSend[t]
               \/ (Returned /\ LastReturn.op = "Send" /\ LastReturn.t = t) )
          => /\ Returned
             /\ LastReturn.op = "Send"
             /\ LastReturn.err = "not initialized"
             /\ LastReturn.n = 0
             /\ LastReturn.via = ""
             /\ ~LastReturn.call.compress
             /\ ~LastReturn.call.encrypt
             /\ libSend'[t] = NoSend]_vars

\* C14 witness: Init, Shutdown, and then a Send that was refused
C14_Witness ==
    /\ Len(libLog) = 3
    /\ libLog[1].op = "Init" /\ libLog[1].err = ""
    /\ libLog[2].op = "Shutdown"
    /\ libLog[3].op = "Send" /\ libLog[3].err = "not initialized"
    /\ libLog[3].call.dataLen = 600
    /\ \A t \in Callers : libSend[t] = NoSend

\* C15: a successful Send with proto UDP and FlagReliable goes through a
\* ReliableContext: the packet gets the context's next sequence number and
\* occupies the send-window slot of that number in state SENT
C15_ReliableThroughARQ ==
    [][( /\ Returned
         /\ LastReturn.op = "Send"
         /\ LastReturn.err = ""
         /\ LastReturn.call.proto = ProtoUDP
         /\ HasFlag(LastReturn.call.flags, FlagReliable) )
       => /\ ctx'.nextSeq = U32(ctx.nextSeq + 1)
          /\ LastReturn.hdr.Seq = ctx.nextSeq
          /\ ctx'.sendWindow[getWindowIndex(ctx.nextSeq)].State = StateSent]_vars


\* C16: Send fails with "send window full" exactly when
\* min(32 - (next_seq - send_base), cwnd) is zero, and accepts the packet
\* whenever that quantity is positive
C16_SendAdmission ==
    (SendFn(ctx, 0, TRUE, TRUE).err = "send window full")
        <=> (Min(WindowSize - InFlight(ctx), ctx.cwnd) = 0)

NoAckProcessed(c) ==
    /\ c.sendBase = 0
    /\ c.lastACKSeq = 0
    /\ c.dupACKCount = 0
    /\ \A i \in 0..(WindowSize - 1) : c.sendWindow[i].State # StateACKed

\* C18, for the first ACK a context processes: whatever its seq, when its slot
\* is in state SENT it is handled as fresh: the slot is acknowledged and
\* send_base advances if the slot is at send_base
C18_FirstAckIsFresh ==
    NoAckProcessed(ctx) =>
        \A a \in AckSeqs :
            LET idx == getWindowIndex(a)
                r   == ProcessACKFn(ctx, a)
            IN  (isInSendWindow(ctx, a) /\ ctx.sendWindow[idx].State = StateSent) =>
                    /\ ~Unacked(r.ctx.sendWindow[idx].State)
                    /\ r.ctx.lastACKSeq = a
                    /\ r.ctx.dupACKCount = 0
                    /\ a = ctx.sendBase => r.ctx.sendBase = U32(ctx.sendBase + 1 + AckedRun(ctx, 1))

\* C19: a duplicate ACK for a slot in state SENT or RETRANSMIT re-sends the
\* slot's stored bytes exactly when it brings dup_ack_count to 3, once, and
\* leaves the slot's sent_at and retry_count alone; every other duplicate
\* sends nothing
C19_FastRetransmit ==
    \A a \in AckSeqs :
        LET idx  == getWindowIndex(a)
            slot == ctx.sendWindow[idx]
            r    == ProcessACKFn(ctx, a)
        IN  (isInSendWindow(ctx, a) /\ Unacked(slot.State) /\ a = ctx.lastACKSeq) =>
                /\ r.ctx.dupACKCount = U32(ctx.dupACKCount + 1)
                /\ r.ctx.sendWindow[idx].Elapsed = slot.Elapsed
                /\ r.ctx.sendWindow[idx].RetryCount = slot.RetryCount
                /\ r.wire = IF r.ctx.dupACKCount = FastRetransmitThreshold
                            THEN <<slot.Serialized>>
                            ELSE <<>>

\* C20: a slot that holds a packet becomes EMPTY only in a step that moves
\* send_base past the slot's sequence number (the cumulative advance over
\* ACKED slots); no other step empties it
C20_FreedOnlyAtBase ==
    [][\A i \in 0..(WindowSize - 1) :
          (ctx.sendWindow[i].State # StateEmpty /\ ctx'.sendWindow[i].State = StateEmpty)
          => U32(ctx.sendWindow[i].Serialized.seq - ctx.sendBase)
                 < U32(ctx'.sendBase - ctx.sendBase)]_vars


\* the slot at index i was emptied by ProcessTimeouts after MaxRetries
\* retransmissions (an advance or a Send leaves RetryCount 0)
Dropped(c, i) ==
    /\ c.sendWindow[i].State = StateEmpty
    /\ c.sendWindow[i].RetryCount >= MaxRetries

DroppedSeq(c, i) == c.sendWindow[i].Serialized.seq

\* C21: once ProcessTimeouts has dropped the slot of sequence s after its
\* retries were exhausted, every later Send, ProcessACK and ProcessTimeouts
\* leaves that slot as it is and send_base at or before s; an ACK for s is
\* ignored; and next_seq stays within one window of s, so only finitely many
\* further Sends succeed before every Send fails with the window full.
C21_RetryExhaustionStalls ==
    /\ [][\A i \in 0..(WindowSize - 1) :
            Dropped(ctx, i) =>
                /\ ctx'.sendWindow[i] = ctx.sendWindow[i]
                /\ U32(DroppedSeq(ctx, i) - ctx'.sendBase) < WindowSize]_vars
    /\ [](\A i \in 0..(WindowSize - 1) :
            Dropped(ctx, i) =>
                /\ U32(DroppedSeq(ctx, i) - ctx.sendBase) < InFlight(ctx)
                /\ ProcessACKFn(ctx, DroppedSeq(ctx, i)).ctx = ctx
                /\ U32(ctx.nextSeq - DroppedSeq(ctx, i)) <= WindowSize)

\* C21 witness: sequence 0 was dropped, a later packet was acknowledged, and
\* the caller has filled the window behind the dropped slot: Send now fails
C21_Witness ==
    /\ Dropped(ctx, 0)
    /\ DroppedSeq(ctx, 0) = 0
    /\ ctx.sendBase = 0
    /\ ctx.sendWindow[1].State = StateACKed
    /\ SendWindowFull(ctx)
    /\ ctx.nextSeq < MaxStallSeq
    /\ SendFn(ctx, 0, TRUE, TRUE).err = "send window full"


\* the slot of c at index i is one ProcessTimeouts may act on: in flight,
\* its sequence in [send_base, next_seq), its age beyond the RTO
TimedOut(c, i) ==
    /\ Unacked(c.sendWindow[i].State)
    /\ U32(DroppedSeq(c, i) - c.sendBase) < InFlight(c)
    /\ getWindowIndex(DroppedSeq(c, i)) = i
    /\ U32(c.sendWindow[i].Elapsed) > c.rtt.RTO

\* what one ProcessTimeouts call r did to the slot at index i of c
TimerLeaves(c, r, i) == r.ctx.sendWindow[i] = c.sendWindow[i]

TimerRetransmits(c, r, i) ==
    /\ TimedOut(c, i)
    /\ c.sendWindow[i].RetryCount < MaxRetries
    /\ r.ctx.sendWindow[i] =
           [Serialized |-> c.sendWindow[i].Serialized, State |-> StateRetransmit,
            Elapsed |-> 0, RetryCount |-> c.sendWindow[i].RetryCount + 1]

TimerDrops(c, r, i) ==
    /\ TimedOut(c, i)
    /\ c.sendWindow[i].RetryCount >= MaxRetries
    /\ r.ctx.sendWindow[i] = [c.sendWindow[i] EXCEPT !.State = StateEmpty]

\* C22: ProcessTimeouts changes a slot only if it is SENT or RETRANSMIT, in
\* [send_base, next_seq) and older than the RTO; with retry_count < 5 the slot
\* gets retry_count + 1, a fresh sent_at, state RETRANSMIT and its stored
\* bytes are written again unchanged; with retry_count >= 5 it becomes EMPTY
\* and nothing is written for it.  retry_count never exceeds 5.
C22_RetransmitTimer ==
    /\ \A i \in 0..(WindowSize - 1) : ctx.sendWindow[i].RetryCount <= MaxRetries
    /\ \A failAt \in 0..1 :
         LET r    == ProcessTimeoutsFn(ctx, failAt)
             sent == { i \in 0..(WindowSize - 1) : TimerRetransmits(ctx, r, i) }
         IN  /\ \A i \in 0..(WindowSize - 1) :
                   \/ TimerLeaves(ctx, r, i)
                   \/ TimerRetransmits(ctx, r, i)
                   \/ TimerDrops(ctx, r, i)
             /\ \A k \in 1..Len(r.wire) :
                   \E i \in sent : r.wire[k] = ctx.sendWindow[i].Serialized
             /\ r.err = "" => /\ Len(r.wire) = Cardinality(sent)
                              /\ r.n = Cardinality(sent)
                              /\ \A i \in sent :
                                    \E k \in 1..Len(r.wire) :
                                        r.wire[k] = ctx.sendWindow[i].Serialized

\* C22 witness: one call of ProcessTimeouts meets a slot that has used its
\* five retransmissions and a slot that has not: it drops the first and
\* retransmits the second
C22_Witness ==
    LET r == ProcessTimeoutsFn(ctx, 0)
    IN  /\ \E i \in 0..(WindowSize - 1) :
              /\ ctx.sendWindow[i].RetryCount = MaxRetries
              /\ ctx.sendWindow[i].State = StateRetransmit
              /\ TimerDrops(ctx, r, i)
        /\ \E j \in 0..(WindowSize - 1) : TimerRetransmits(ctx, r, j)
        /\ Len(r.wire) = 1
        /\ \E i \in 0..(WindowSize - 1) : Dropped(ctx, i)


\* the edges of the slot state machine
SlotEdges ==
    { <<StateEmpty, StateSent>>,
      <<StateSent, StateACKed>>, <<StateRetransmit, StateACKed>>,
      <<StateSent, StateRetransmit>>, <<StateRetransmit, StateRetransmit>>,
      <<StateACKed, StateEmpty>>, <<StateRetransmit, StateEmpty>> }

\* from c to d the advance loop of ProcessACK freed the slot at index i
FreedByAdvance(c, d, i) ==
    /\ d.sendWindow[i] = EmptySlot
    /\ U32(DroppedSeq(c, i) - c.sendBase) < U32(d.sendBase - c.sendBase)
    /\ U32(d.sendBase - c.sendBase) <= InFlight(c)

\* from c to d one ProcessACK call took the slot at index i from SENT or
\* RETRANSMIT to ACKED and its advance loop then freed it
AckedThenFreed(c, d, i) ==
    /\ Unacked(c.sendWindow[i].State)
    /\ d = ProcessACKFn(c, DroppedSeq(c, i)).ctx
    /\ DroppedSeq(c, i) # c.lastACKSeq
    /\ FreedByAdvance(c, d, i)

\* from c to d the state of the slot at index i moved along edges of the
\* state machine, taken by the operations the edges belong to
SlotStep(c, d, i) ==
    LET a == c.sendWindow[i].State
        b == d.sendWindow[i].State
    IN  a # b =>
          IF b = StateEmpty
          THEN \/ a = StateACKed /\ FreedByAdvance(c, d, i)
               \/ AckedThenFreed(c, d, i)
               \/ /\ a = StateRetransmit
                  /\ c.sendWindow[i].RetryCount >= MaxRetries
                  /\ d.sendWindow[i] = [c.sendWindow[i] EXCEPT !.State = StateEmpty]
          ELSE /\ <<a, b>> \in SlotEdges
               /\ b = StateSent => d = SendFn(c, 0, TRUE, TRUE).ctx
               /\ b = StateACKed => d = ProcessACKFn(c, DroppedSeq(c, i)).ctx

\* C23: a slot's state changes only along EMPTY->SENT (Send), SENT->ACKED and
\* RETRANSMIT->ACKED (a fresh ACK), SENT->RETRANSMIT and
\* RETRANSMIT->RETRANSMIT (timeout or fast retransmit), ACKED->EMPTY (the
\* cumulative advance) and RETRANSMIT->EMPTY (retry exhaustion); a slot that
\* one ProcessACK call acknowledges and frees goes through ACKED.
C23_SlotStateMachine ==
    [][\A i \in 0..(WindowSize - 1) : SlotStep(ctx, ctx', i)]_vars

\* C23 witness: a run in which every edge was taken: a packet acknowledged
\* and freed, one acknowledged after a retransmission, one retransmitted
\* twice, one dropped after its retries, one just sent
C23_Witness ==
    /\ ctx.sendBase > 0
    /\ \E i \in 0..(WindowSize - 1) : Dropped(ctx, i)
    /\ \E i \in 0..(WindowSize - 1) :
          ctx.sendWindow[i].State = StateACKed /\ ctx.sendWindow[i].RetryCount > 0
    /\ \E i \in 0..(WindowSize - 1) :
          ctx.sendWindow[i].State = StateRetransmit /\ ctx.sendWindow[i].RetryCount > 1
    /\ \E i \in 0..(WindowSize - 1) : ctx.sendWindow[i].State = StateSent


\* ssthresh, cwnd and the slow-start flag after k collapses in a row from c:
\* the first halves the cwnd of c, any further one halves InitialCwnd
Collapsed(c, k) ==
    IF k = 0
    THEN <<c.ssthresh, c.cwnd, c.inSlowStart>>
    ELSE LET from == IF k = 1 THEN c.cwnd ELSE InitialCwnd
         IN  <<IF from \div 2 < 2 THEN 2 ELSE from \div 2, InitialCwnd, TRUE>>

Congestion(c) == <<c.ssthresh, c.cwnd, c.inSlowStart>>

\* the slots one ProcessTimeouts call on c finds timed out, and those of
\* them it retransmits
TimedOutSlots(c) == { i \in 0..(WindowSize - 1) : TimedOut(c, i) }

RetransmittedSlots(c) ==
    { i \in TimedOutSlots(c) : c.sendWindow[i].RetryCount < MaxRetries }

\* C24 as stated: for every slot ProcessTimeouts finds timed out, retransmitted
\* or dropped, it sets ssthresh = max(cwnd / 2, 2), cwnd = 4 and re-enters
\* slow start.
C24_CollapseOnEveryTimeout ==
    Congestion(ProcessTimeoutsFn(ctx, 0).ctx)
        = Collapsed(ctx, Cardinality(TimedOutSlots(ctx)))

\* What the code does where C24 fails: for every timed-out slot
\* ProcessTimeouts retransmits it sets
\* ssthresh = max(cwnd / 2, 2) from the cwnd of that moment, cwnd = 4 and
\* re-enters slow start; a slot it drops at retry_count >= 5 changes none of
\* the three, and a failed write ends the call after that slot's collapse.
C24_CollapseOnRetransmit ==
    /\ Congestion(ProcessTimeoutsFn(ctx, 0).ctx)
           = Collapsed(ctx, Cardinality(RetransmittedSlots(ctx)))
    /\ Congestion(ProcessTimeoutsFn(ctx, 1).ctx)
           = Collapsed(ctx, IF RetransmittedSlots(ctx) = {} THEN 0 ELSE 1)

\* C24, the failing case: the congestion window has grown again since the last
\* retransmission, and the one slot ProcessTimeouts finds timed out has used
\* its retries: the call drops it and leaves cwnd and ssthresh alone
C24_Witness ==
    LET r == ProcessTimeoutsFn(ctx, 0)
    IN  /\ \E i \in TimedOutSlots(ctx) : TimerDrops(ctx, r, i)
        /\ RetransmittedSlots(ctx) = {}
        /\ ctx.cwnd > InitialCwnd
        /\ ~ctx.inSlowStart
        /\ Congestion(r.ctx) = Congestion(ctx)

\* C24, the case that holds: a retransmission from a cwnd above 4
C24_WitnessCollapse ==
    /\ RetransmittedSlots(ctx) # {}
    /\ ctx.cwnd > InitialCwnd
    /\ ProcessTimeoutsFn(ctx, 0).ctx.cwnd = InitialCwnd


\* ProcessACK(ackSeq) on c takes the fresh-ACK branch: the sequence is in the
\* send window, its slot is in flight, and it is not the last one acknowledged
FreshACK(c, ackSeq) ==
    /\ isInSendWindow(c, ackSeq)
    /\ Unacked(c.sendWindow[getWindowIndex(ackSeq)].State)
    /\ ackSeq # c.lastACKSeq

\* the sequence numbers around the send window an ACK may carry
NearAcks(c) == { U32(c.sendBase + k - 1) : k \in 0..3 } \cup {c.lastACKSeq}

\* C25: cwnd starts at 4 and ssthresh at 32; always 4 <= cwnd <= 32 and
\* ssthresh >= 2; in slow start a fresh ACK raises cwnd by exactly 1 (unless
\* it is 32 already) and slow start is left exactly when cwnd >= ssthresh
\* after the increment; duplicate and ignored ACKs leave cwnd unchanged.
C25_CongestionWindow ==
    /\ NewReliableContext.cwnd = 4
    /\ NewReliableContext.ssthresh = 32
    /\ 4 <= ctx.cwnd /\ ctx.cwnd <= 32
    /\ ctx.ssthresh >= 2
    /\ \A ackSeq \in NearAcks(ctx) :
         LET d == ProcessACKFn(ctx, ackSeq).ctx
         IN  IF FreshACK(ctx, ackSeq)
             THEN ctx.inSlowStart =>
                    /\ d.cwnd = IF ctx.cwnd = 32 THEN 32 ELSE ctx.cwnd + 1
                    /\ d.inSlowStart = ~(d.cwnd >= ctx.ssthresh)
                    /\ d.ssthresh = ctx.ssthresh
             ELSE Congestion(d) = Congestion(ctx)

\* C25 witness: the window grew to its cap, a timeout collapsed it from there
\* (ssthresh = 16), and fresh ACKs in slow start raised it again one by one
\* until it met ssthresh and slow start was left
C25_Witness ==
    /\ ctx.ssthresh = MaxCwnd \div 2
    /\ ctx.cwnd = ctx.ssthresh
    /\ ~ctx.inSlowStart


\* C26: on a fresh ACK, ProcessACK feeds an RTT sample (now - sent_at of the
\* acknowledged slot) to updateRTT if and only if that slot's retry_count is
\* 0; duplicate and ignored ACKs never change srtt, rttvar or rto.
C26_RTTSampling ==
    \A ackSeq \in NearAcks(ctx) :
        LET d    == ProcessACKFn(ctx, ackSeq).ctx
            slot == ctx.sendWindow[getWindowIndex(ackSeq)]
        IN  IF FreshACK(ctx, ackSeq)
            THEN d.rtt = IF slot.RetryCount = 0
                         THEN updateRTT(ctx.rtt, U32(slot.Elapsed))
                         ELSE ctx.rtt
            ELSE d.rtt = ctx.rtt

\* What the code does where C26 fails: the sample is taken if and only if
\* retry_count is 0 and the slot is still in state SENT
C26_RTTSamplingSentOnly ==
    \A ackSeq \in NearAcks(ctx) :
        LET d    == ProcessACKFn(ctx, ackSeq).ctx
            slot == ctx.sendWindow[getWindowIndex(ackSeq)]
        IN  IF FreshACK(ctx, ackSeq)
            THEN d.rtt = IF slot.RetryCount = 0 /\ slot.State = StateSent
                         THEN updateRTT(ctx.rtt, U32(slot.Elapsed))
                         ELSE ctx.rtt
            ELSE d.rtt = ctx.rtt


\* C27: between calls of Recv, the receive bitmap entry at seq mod 32 is true
\* if and only if seq lies in [recv_base, recv_base + 32) and a packet with
\* that seq has been accepted; the entry of recv_base itself is false.
C27_ReceiveBitmap ==
    /\ \A i \in 0..(WindowSize - 1) :
          ctx.recvWindow[i] <=>
              \E s \in delivered : InWindow(ctx.recvBase, s) /\ getWindowIndex(s) = i
    /\ ~ctx.recvWindow[getWindowIndex(ctx.recvBase)]

\* C27 witness: 0 and 1 were accepted and the window moved past them, 3 and
\* 32 were accepted ahead of recv_base = 2: entry 3 is set, entry 0 is set
\* again for 32 and not for 0, entries 1 and 2 are clear
C27_Witness ==
    /\ delivered = {0, 1, 3, WindowSize}
    /\ ctx.recvBase = 2
    /\ ctx.recvWindow[3] /\ ctx.recvWindow[0]
    /\ ~ctx.recvWindow[1] /\ ~ctx.recvWindow[2]


C28_WitnessEof ==
    /\ Len(tcpOut) = 2
    /\ tcpOut[1].err = ""
    /\ tcpOut[2].err = "EOF"
    /\ conn.recvState = StateIdle


\* the frame the i-th TCPRecv call is reading: one past the frames the
\* earlier calls finished, with a packet or with a codec error
FrameOfCall(i) ==
    1 + Cardinality({ j \in 1..(i - 1) : tcpOut[j].err \notin TcpIOErrors \cup {"EOF"} })

\* C29: when a Read error interrupts TCPRecv after k bytes of a frame, the
\* next TCPRecv call resumes from byte k and returns that frame intact: no
\* consumed byte is lost and the stream stays aligned.
C29_ResumeAfterCancel ==
    \A i \in 1..(Len(tcpOut) - 1) :
        (/\ tcpOut[i].err \in TcpIOErrors
         /\ tcpOut[i + 1].err \notin TcpIOErrors \cup {"EOF"}
         /\ tcpFrames[FrameOfCall(i)].bad = "")
        => /\ tcpOut[i + 1].err = ""
           /\ tcpOut[i + 1].hdr = tcpFrames[FrameOfCall(i)].hdr
           /\ tcpOut[i + 1].payload = tcpFrames[FrameOfCall(i)].payload
           /\ tcpOut[i].consumed + tcpOut[i + 1].consumed
                 = HeaderSize + Len(tcpFrames[FrameOfCall(i)].payload) + 4

\* What holds where C29 fails: an interruption before any byte of the frame
\* was consumed loses nothing, and the next call returns the frame
C29_ResumeAtFrameStart ==
    \A i \in 1..(Len(tcpOut) - 1) :
        (/\ tcpOut[i].err \in TcpIOErrors
         /\ tcpOut[i].consumed = 0
         /\ tcpOut[i + 1].err \notin TcpIOErrors \cup {"EOF"}
         /\ tcpFrames[FrameOfCall(i)].bad = "")
        => /\ tcpOut[i + 1].err = ""
           /\ tcpOut[i + 1].hdr = tcpFrames[FrameOfCall(i)].hdr
           /\ tcpOut[i + 1].payload = tcpFrames[FrameOfCall(i)].payload


\* the error Deserialize gives for a frame damaged in the named field
DamageError(bad) ==
    CASE bad = "magic"   -> "invalid magic number"
      [] bad = "version" -> "invalid version"
      [] bad = "crc"     -> "CRC32 mismatch"
      [] OTHER           -> ""

MtInside == {t \in Callers : tcpMt.th[t].pc \in {"run", "read", "unlock"}}

FrameBytes(i) == Len(Serialize(tcpFrames[i].hdr, tcpFrames[i].payload).data)

RECURSIVE FramesBytes(_)
FramesBytes(n) == IF n = 0 THEN 0 ELSE FramesBytes(n - 1) + FrameBytes(n)

MtReading == {t \in Callers : tcpMt.th[t].pc = "read"}

RECURSIVE SumConsumed(_)
SumConsumed(T) ==
    IF T = {} THEN 0
    ELSE LET t == CHOOSE x \in T : TRUE
         IN  tcpMt.th[t].consumed + SumConsumed(T \ {t})

SplitLen == Len(fragIn.payload)

SplitMaxFrag == fragIn.mtu - HeaderSize - 4

SplitN == (SplitLen + SplitMaxFrag - 1) \div SplitMaxFrag

SplitCalled == fragRet.op = "FragmentPacket"

SplitInN(n, maxFrag) ==
    /\ fragRet.err = ""
    /\ Len(fragWire) = n
    /\ \A k \in 1..n :
         LET d == Deserialize(fragWire[k])
             i == k - 1
             size == IF k < n THEN maxFrag ELSE SplitLen - (n - 1) * maxFrag
         IN  /\ d.err = ""
             /\ d.hdr.Flags = SetFlag(fragIn.hdr.Flags, FlagFragment)
             /\ d.hdr.FragID = i
             /\ d.hdr.TotalFrags = n
             /\ d.hdr.PayloadLen = size
             /\ d.hdr.Opcode = fragIn.hdr.Opcode
             /\ d.hdr.StreamID = fragIn.hdr.StreamID
             /\ d.hdr.Seq = fragIn.hdr.Seq
             /\ size > 0
             /\ d.payload = SubSeq(fragIn.payload, i * maxFrag + 1, i * maxFrag + size)

C33_InvalidFragmentID ==
    [][ (fragRet'.op = "AddFragment" /\ fragRet'.hdr.FragID >= fctx.TotalFrags)
          => /\ fragRet'.err = "invalid fragment ID"
             /\ ~fragRet'.complete
             /\ fctx' = fctx ]_vars

\* a context of two fragments that holds one has refused a fragment 2
C33_Witness ==
    /\ fragRet.op = "AddFragment"
    /\ fragRet.err = "invalid fragment ID"
    /\ fragRet.hdr.FragID = 2
    /\ fctx.TotalFrags = 2
    /\ fctx.ReceivedFrags = 1
    /\ fctx.Fragments[1] # Nil


(***************************************************************************)
(* C34.  For a complete context the header returned by Assemble has        *)
(* payload_len equal to the length of the payload returned with it.        *)
(* Checked under SpecReasm, where it fails: payload_len is that length     *)
(* modulo 65536.                                                           *)
(***************************************************************************)
ReasmComplete ==
    /\ fctx.TotalFrags \in 1..FragMaxFragments
    /\ fctx.ReceivedFrags = fctx.TotalFrags

C34_ReassembledLength ==
    ReasmComplete =>
        LET r == Assemble(fctx)
        IN  r.err = "" /\ r.hdr.PayloadLen = Len(r.payload)

(***************************************************************************)
(* C35.  An Encrypt or Decrypt that copied the key slice under the read    *)
(* lock makes its cipher from the 32 bytes of the key installed at that    *)
(* moment, none of them zeroed, whatever ClearEncryptionKey and            *)
(* SetEncryptionKey do meanwhile.  Checked under SpecKeys, where it fails: *)
(* the copy shares the buffer ClearEncryptionKey zeroes in place.          *)
(***************************************************************************)
C35_KeySnapshotIsolation ==
    \A t \in Callers :
        (keys.rd[t].pc = "done" /\ keys.rd[t].err = "")
            => keys.rd[t].used = [key |-> keys.rd[t].snap, zeroed |-> 0]


(***************************************************************************)
(* C36.  Every slot of the send window whose index is not seq mod 32 of a  *)
(* sequence number in [send_base, next_seq) is EMPTY, and a Send that      *)
(* succeeds stores its packet into a slot that was EMPTY: it never         *)
(* overwrites a SENT, RETRANSMIT or ACKED slot.  Checked under SpecWin,    *)
(* where sequence numbers pass the window size and slots are used again.   *)
(***************************************************************************)
OpenSlots(c) ==
    { getWindowIndex(U32(c.sendBase + i)) : i \in 0..(U32(c.nextSeq - c.sendBase) - 1) }

SlotsOutsideEmpty ==
    \A i \in 0..(WindowSize - 1) :
        i \notin OpenSlots(ctx) => ctx.sendWindow[i].State = StateEmpty

SendStored ==
    /\ ctx'.nextSeq = U32(ctx.nextSeq + 1)
    /\ ctx'.sendWindow[getWindowIndex(ctx.nextSeq)].State = StateSent

C36_SendIntoEmptySlot ==
    /\ []SlotsOutsideEmpty
    /\ [][SendStored => ctx.sendWindow[getWindowIndex(ctx.nextSeq)].State = StateEmpty]_vars

\* a slot is in use for the second time while others are SENT and ACKED
C36_Witness ==
    /\ ctx.nextSeq > WindowSize
    /\ ctx.sendWindow[0].State = StateSent
    /\ ctx.sendWindow[0].Serialized.seq = WindowSize
    /\ \E i \in 0..(WindowSize - 1) : ctx.sendWindow[i].State = StateACKed
    /\ \E i \in 0..(WindowSize - 1) : ctx.sendWindow[i].State = StateEmpty


(***************************************************************************)
(* C37.  Recv returns a RELIABLE packet of a given sequence number at most *)
(* once: when a packet with that number has been returned, every copy that *)
(* arrives later, as data or with the ACK flag, is answered with the error *)
(* "duplicate packet" or "sequence number out of receive window", no       *)
(* packet is returned and the window does not change.  Checked under       *)
(* SpecRecv.                                                               *)
(***************************************************************************)
RecvRefuses(d) ==
    LET r == RecvFn(ctx, d)
    IN  /\ r.err \in {"duplicate packet", "sequence number out of receive window"}
        /\ r.hdr = NoPkt
        /\ r.ctx = ctx

C37_NoDuplicateDelivery ==
    \A d \in RecvInputs :
        (d.ok /\ d.fromPeer /\ HasFlag(d.pkt.flags, FlagReliable)
              /\ d.pkt.seq \in delivered)
            => RecvRefuses(d)

\* 0 was returned and the window moved past it, 3 was returned ahead of the
\* window's base: a copy of 0 is out of the window, a copy of 3 a duplicate
C37_Witness ==
    /\ {0, 3} \subseteq delivered
    /\ ctx.recvBase = 1
    /\ RecvFn(ctx, FromPeer(Reliable(0))).err = "sequence number out of receive window"
    /\ RecvFn(ctx, FromPeer(Reliable(3))).err = "duplicate packet"


(***************************************************************************)
(* C38.  A Send that returns an error, because the window is full or the   *)
(* packet cannot be serialized (a payload above 65535 bytes), leaves       *)
(* next_seq, send_base and every slot of the send window as they were.     *)
(* Checked under SpecSend, where it fails: the sequence number is taken    *)
(* before the packet is serialized.                                        *)
(***************************************************************************)
SendKeeps(r) ==
    /\ r.ctx.nextSeq = ctx.nextSeq
    /\ r.ctx.sendBase = ctx.sendBase
    /\ r.ctx.sendWindow = ctx.sendWindow

C38_FailedSendKeepsContext ==
    \A payloadOK \in BOOLEAN :
        LET r == SendFn(ctx, 0, payloadOK, TRUE)
        IN  r.err # "" => SendKeeps(r)


(***************************************************************************)
(* C39.  Recv given a datagram that carries the ACK flag (an ACK is sent   *)
(* with the flags ACK and RELIABLE) writes no ACK in answer and changes    *)
(* neither recv_base nor the receive bitmap, so that ACKs cause no further *)
(* ACKs.  Checked under SpecRecv, where it fails: Recv looks at the        *)
(* RELIABLE flag only and treats the ACK as data.                          *)
(***************************************************************************)
C39_AcksNotAcknowledged ==
    \A s \in RecvSeqs :
        LET r == RecvFn(ctx, FromPeer(AckPkt(s)))
        IN  /\ r.wire = <<>>
            /\ r.ctx.recvBase = ctx.recvBase
            /\ r.ctx.recvWindow = ctx.recvWindow


(***************************************************************************)
(* C40.  Whatever total_frags a context was created with and whatever      *)
(* frag_id arrives, AddFragment and Assemble touch payload slots 0..255    *)
(* only and Assemble dereferences a header that was stored: no call ends   *)
(* in a run-time panic, and a frag_id of 256 or more is refused with the   *)
(* error "invalid fragment ID".  Checked under SpecReasm, where it fails   *)
(* for a context whose total_frags is above 256 and for one whose          *)
(* total_frags is 0.                                                       *)
(***************************************************************************)
C40_FragmentSlotBounds ==
    /\ \A id \in ReasmIDs :
         LET r == AddFragment(fctx, id, NoHeader, <<0>>)
         IN  /\ r.err # IndexOutOfRange
             /\ id >= FragMaxFragments => r.err = "invalid fragment ID"
    /\ fragRet.op # "" => Assemble(fctx).err # NilDereference

====
